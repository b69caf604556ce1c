------------------------- MODULE StatePersist_proofs -------------------------
(***************************************************************************)
(* Proofs about StatePersist, for every bound on the book's versions, the  *)
(* failed writes, the boots and the power losses.  The invariant is Staged *)
(* (who may be writing), Ordered (how old each copy is) and FileIsWhole;   *)
(* one lemma per action shows that it is kept.                             *)
(***************************************************************************)
EXTENDS StatePersist, TLAPS

IInv == PersistTypeOK /\ Staged /\ Ordered /\ FileIsWhole

USE DEF Threads, Writing, GoTo

(* Nothing runs at first, and the file is whole. *)
LEMMA InitInv == PersistInit => IInv
<1> SUFFICES ASSUME PersistInit PROVE IInv
  OBVIOUS
<1>1. PersistTypeOK
  <2>1. /\ stage \in {"down", "boot", "run", "join", "final"}
        /\ book \in Versions /\ epoch \in Versions /\ offered \in Versions
        /\ fails \in 0 .. MaxFails /\ boots \in 0 .. MaxBoots
        /\ losses \in 0 .. MaxLosses
    BY PersistAssumption DEF PersistInit, Versions
  <2>2. blocked \in BOOLEAN /\ wait \in BOOLEAN /\ clean \in BOOLEAN
    BY DEF PersistInit
  <2>3. 0 \in Versions
    BY PersistAssumption DEF Versions
  <2>4. mail \in [full : BOOLEAN, ver : Versions]
    BY <2>3 DEF PersistInit
  <2>5. pc \in [Threads -> Steps] /\ buf \in [Threads -> Versions]
    BY <2>3 DEF PersistInit, Steps
  <2>6. tmp \in Texts /\ path \in Texts /\ may \subseteq Texts
    BY <2>3 DEF PersistInit, Texts, NoTmp, Written
  <2> QED BY <2>1, <2>2, <2>4, <2>5, <2>6 DEF PersistTypeOK
<1>2. Staged
  BY DEF PersistInit, Staged
<1>3. Ordered
  BY DEF PersistInit, Ordered
<1>4. FileIsWhole
  BY DEF PersistInit, FileIsWhole, Written
<1> QED BY <1>1, <1>2, <1>3, <1>4 DEF IInv

(* One thread at a time is inside write_atomic. *)
LEMMA OneWriter ==
  ASSUME PersistTypeOK, Staged, NEW t \in Threads, NEW u \in Threads,
         pc[t] \in Writing, pc[u] \in Writing
  PROVE  t = u
  BY DEF PersistTypeOK, Staged, Steps

(* File::create: the temp file is emptied; nobody else is writing it. *)
LEMMA CreateKeeps == ASSUME IInv, NEW t \in Threads, Create(t) PROVE IInv'
<1>1. PersistTypeOK'
  BY PersistAssumption DEF Create, process, bounds, IInv, PersistTypeOK, Versions,
       Texts, Truncated, Steps
<1>2. Staged'
  BY DEF Create, process, IInv, PersistTypeOK, Staged, Truncated
<1>3. Ordered'
  BY PersistAssumption DEF Create, process, IInv, PersistTypeOK, Staged, Ordered,
       Versions, Texts
<1>4. FileIsWhole'
  BY DEF Create, IInv, FileIsWhole
<1> QED BY <1>1, <1>2, <1>3, <1>4 DEF IInv

(* write_all over the empty temp file makes the text whole. *)
LEMMA WriteAllKeeps == ASSUME IInv, NEW t \in Threads, WriteAll(t) PROVE IInv'
<1>1. PersistTypeOK'
  BY PersistAssumption DEF WriteAll, process, bounds, IInv, PersistTypeOK, Versions,
       Texts, Truncated, Steps
<1>2. Staged'
  <2>1. \A u \in Threads : pc[u] \in Writing => u = t
    BY OneWriter DEF WriteAll, IInv
  <2>2. tmp' = [ver |-> buf[t], whole |-> TRUE, synced |-> FALSE]
    <3>1. tmp = Truncated
      BY DEF WriteAll, IInv, Staged
    <3>2. (tmp = Truncated) = TRUE
      BY <3>1
    <3> QED BY <3>2 DEF WriteAll
  <2>3. \A u \in Threads : pc'[u] \in {"write", "sync", "rename"} => u = t
    BY <2>1 DEF WriteAll, IInv, PersistTypeOK
  <2>4. buf'[t] = buf[t]
    BY DEF WriteAll
  <2>5. \A u \in Threads :
          /\ pc'[u] = "write" => tmp' = Truncated
          /\ pc'[u] = "sync" => tmp' = [ver |-> buf'[u], whole |-> TRUE, synced |-> FALSE]
          /\ pc'[u] = "rename" => tmp' = Written(buf'[u])
    BY <2>2, <2>3, <2>4 DEF WriteAll, IInv, PersistTypeOK
  <2>6. /\ stage' \in {"down", "run", "join"} => pc'["main"] = "idle"
        /\ stage' \in {"boot", "final"} =>
             pc'["main"] \in Writing \cup {"wrote", "failed"}
        /\ stage' \in {"down", "boot", "final"} => pc'["writer"] \in {"idle", "done"}
    BY DEF WriteAll, process, IInv, PersistTypeOK, Staged
  <2> QED BY <2>5, <2>6 DEF Staged
<1>3. Ordered'
  BY PersistAssumption DEF WriteAll, process, IInv, PersistTypeOK, Staged, Ordered,
       Versions, Texts
<1>4. FileIsWhole'
  BY DEF WriteAll, IInv, FileIsWhole
<1> QED BY <1>1, <1>2, <1>3, <1>4 DEF IInv

(* sync_all puts the temp file on the disk. *)
LEMMA SyncAllKeeps == ASSUME IInv, NEW t \in Threads, SyncAll(t) PROVE IInv'
<1>1. PersistTypeOK'
  BY DEF SyncAll, process, bounds, IInv, PersistTypeOK, Versions, Texts, Steps
<1>2. Staged'
  <2>1. \A u \in Threads : pc[u] \in Writing => u = t
    BY OneWriter DEF SyncAll, IInv
  <2>2. tmp' = Written(buf[t])
    <3>1. tmp = [ver |-> buf[t], whole |-> TRUE, synced |-> FALSE]
      BY DEF SyncAll, IInv, Staged
    <3>2. tmp' = [tmp EXCEPT !.synced = TRUE]
      BY DEF SyncAll
    <3> QED BY <3>1, <3>2 DEF Written
  <2>3. \A u \in Threads : pc'[u] \in {"write", "sync", "rename"} => u = t
    BY <2>1 DEF SyncAll, IInv, PersistTypeOK
  <2>4. buf'[t] = buf[t]
    BY DEF SyncAll
  <2>5. \A u \in Threads :
          /\ pc'[u] = "write" => tmp' = Truncated
          /\ pc'[u] = "sync" => tmp' = [ver |-> buf'[u], whole |-> TRUE, synced |-> FALSE]
          /\ pc'[u] = "rename" => tmp' = Written(buf'[u])
    BY <2>2, <2>3, <2>4 DEF SyncAll, IInv, PersistTypeOK
  <2>6. /\ stage' \in {"down", "run", "join"} => pc'["main"] = "idle"
        /\ stage' \in {"boot", "final"} =>
             pc'["main"] \in Writing \cup {"wrote", "failed"}
        /\ stage' \in {"down", "boot", "final"} => pc'["writer"] \in {"idle", "done"}
    BY DEF SyncAll, process, IInv, PersistTypeOK, Staged
  <2> QED BY <2>5, <2>6 DEF Staged
<1>3. Ordered'
  BY PersistAssumption DEF SyncAll, process, IInv, PersistTypeOK, Staged, Ordered,
       Versions, Texts
<1>4. FileIsWhole'
  BY DEF SyncAll, IInv, FileIsWhole
<1> QED BY <1>1, <1>2, <1>3, <1>4 DEF IInv

(* rename: what takes the name is whole and synced, and no older than the file. *)
LEMMA RenameKeeps == ASSUME IInv, NEW t \in Threads, Rename(t) PROVE IInv'
<1>1. PersistTypeOK'
  BY PersistAssumption DEF Rename, process, bounds, IInv, PersistTypeOK, Versions,
       Texts, NoTmp, Steps
<1>2. Staged'
  BY DEF Rename, process, IInv, PersistTypeOK, Staged, NoTmp
<1>3. Ordered'
  BY PersistAssumption DEF Rename, process, IInv, PersistTypeOK, Staged, Ordered,
       Versions, Texts, Written
<1>4. FileIsWhole'
  BY DEF Rename, IInv, PersistTypeOK, Staged, FileIsWhole, Texts, Written, NoTmp
<1> QED BY <1>1, <1>2, <1>3, <1>4 DEF IInv

(* A call that fails changes no file. *)
LEMMA FailKeeps == ASSUME IInv, NEW t \in Threads, Fail(t) PROVE IInv'
<1>1. PersistTypeOK'
  BY PersistAssumption DEF Fail, process, disk, IInv, PersistTypeOK, Versions, Steps
<1>2. Staged'
  BY DEF Fail, process, disk, IInv, PersistTypeOK, Staged
<1>3. Ordered'
  BY DEF Fail, process, disk, IInv, PersistTypeOK, Staged, Ordered
<1>4. FileIsWhole'
  BY DEF Fail, disk, IInv, FileIsWhole
<1> QED BY <1>1, <1>2, <1>3, <1>4 DEF IInv

(* A boot starts from the file. *)
LEMMA BootKeeps == ASSUME IInv, Boot PROVE IInv'
<1>1. PersistTypeOK'
  <2>1. path.ver \in Versions
    BY DEF IInv, PersistTypeOK, Texts
  <2>2. /\ stage' \in {"down", "boot", "run", "join", "final"}
        /\ book' \in Versions /\ epoch' \in Versions /\ offered' \in Versions
        /\ fails' \in 0 .. MaxFails /\ boots' \in 0 .. MaxBoots
        /\ losses' \in 0 .. MaxLosses
    BY <2>1, PersistAssumption DEF Boot, IInv, PersistTypeOK
  <2>3. blocked' \in BOOLEAN /\ wait' \in BOOLEAN /\ clean' \in BOOLEAN
    BY DEF Boot, IInv, PersistTypeOK
  <2>4. /\ mail' \in [full : BOOLEAN, ver : Versions]
        /\ tmp' \in Texts /\ path' \in Texts /\ may' \subseteq Texts
    BY DEF Boot, IInv, PersistTypeOK, disk
  <2>5. pc' \in [Threads -> Steps] /\ buf' \in [Threads -> Versions]
    BY <2>1 DEF Boot, IInv, PersistTypeOK, Steps
  <2> QED BY <2>2, <2>3, <2>4, <2>5 DEF PersistTypeOK
<1>2. Staged'
  BY DEF Boot, disk, IInv, PersistTypeOK, Staged
<1>3. Ordered'
  BY PersistAssumption DEF Boot, disk, IInv, PersistTypeOK, Staged, Ordered,
       Versions, Texts
<1>4. FileIsWhole'
  BY DEF Boot, disk, IInv, FileIsWhole
<1> QED BY <1>1, <1>2, <1>3, <1>4 DEF IInv

(* The boot's write is over, or refused. *)
LEMMA BootEndsKeeps == ASSUME IInv, BootEnds PROVE IInv'
<1>1. PersistTypeOK'
  BY DEF BootEnds, disk, bounds, IInv, PersistTypeOK, Steps
<1>2. Staged'
  BY DEF BootEnds, disk, IInv, PersistTypeOK, Staged
<1>3. Ordered'
  BY PersistAssumption DEF BootEnds, disk, IInv, PersistTypeOK, Staged, Ordered,
       Versions, Texts
<1>4. FileIsWhole'
  BY DEF BootEnds, disk, IInv, FileIsWhole
<1> QED BY <1>1, <1>2, <1>3, <1>4 DEF IInv

(* A fill makes book and epoch newer. *)
LEMMA OnFillKeeps == ASSUME IInv, OnFill PROVE IInv'
<1>1. PersistTypeOK'
  BY PersistAssumption DEF OnFill, disk, bounds, IInv, PersistTypeOK, Versions
<1>2. Staged'
  BY DEF OnFill, disk, IInv, PersistTypeOK, Staged
<1>3. Ordered'
  BY PersistAssumption DEF OnFill, disk, IInv, PersistTypeOK, Staged, Ordered,
       Versions, Texts
<1>4. FileIsWhole'
  BY DEF OnFill, disk, IInv, FileIsWhole
<1> QED BY <1>1, <1>2, <1>3, <1>4 DEF IInv

(* An oracle price makes the book newer. *)
LEMMA OnVenueEventKeeps == ASSUME IInv, OnVenueEvent PROVE IInv'
<1>1. PersistTypeOK'
  BY PersistAssumption DEF OnVenueEvent, disk, bounds, IInv, PersistTypeOK, Versions
<1>2. Staged'
  BY DEF OnVenueEvent, disk, IInv, PersistTypeOK, Staged
<1>3. Ordered'
  BY PersistAssumption DEF OnVenueEvent, disk, IInv, PersistTypeOK, Staged, Ordered,
       Versions, Texts
<1>4. FileIsWhole'
  BY DEF OnVenueEvent, disk, IInv, FileIsWhole
<1> QED BY <1>1, <1>2, <1>3, <1>4 DEF IInv

(* A timer hands over a book newer than the file. *)
LEMMA OnTimerKeeps == ASSUME IInv, NEW did \in Doings, OnTimer(did) PROVE IInv'
<1>1. PersistTypeOK'
  <2>1. book' \in Versions /\ epoch' \in Versions
    BY PersistAssumption DEF OnTimer, IInv, PersistTypeOK, Versions
  <2>2. offered' \in Versions
    BY <2>1 DEF OnTimer, OfferState, IInv, PersistTypeOK
  <2>3. mail' \in [full : BOOLEAN, ver : Versions]
    <3>1. mail' = mail \/ mail' = [full |-> TRUE, ver |-> book']
      BY DEF OnTimer, OfferState
    <3>2. CASE mail' = mail
      BY <3>2 DEF IInv, PersistTypeOK
    <3>3. CASE mail' = [full |-> TRUE, ver |-> book']
      BY <2>1, <3>3
    <3> QED BY <3>1, <3>2, <3>3
  <2>4. blocked' \in BOOLEAN
    <3>1. blocked' = blocked \/ blocked' = TRUE \/ blocked' = FALSE
      BY Zenon DEF OnTimer, OfferState
    <3> QED BY <3>1 DEF IInv, PersistTypeOK
  <2>5. wait' \in BOOLEAN /\ clean' \in BOOLEAN
    BY DEF OnTimer, IInv, PersistTypeOK
  <2>6. /\ stage' \in {"down", "boot", "run", "join", "final"}
        /\ fails' \in 0 .. MaxFails /\ boots' \in 0 .. MaxBoots
        /\ losses' \in 0 .. MaxLosses
        /\ pc' \in [Threads -> Steps] /\ buf' \in [Threads -> Versions]
        /\ tmp' \in Texts /\ path' \in Texts /\ may' \subseteq Texts
    BY DEF OnTimer, IInv, PersistTypeOK, disk, bounds
  <2> QED BY <2>1, <2>2, <2>3, <2>4, <2>5, <2>6 DEF PersistTypeOK
<1>2. Staged'
  BY DEF OnTimer, OfferState, disk, IInv, PersistTypeOK, Staged
<1>3. Ordered'
  BY PersistAssumption DEF OnTimer, OfferState, disk, IInv, PersistTypeOK, Staged,
       Ordered, Versions, Texts
<1>4. FileIsWhole'
  BY DEF OnTimer, disk, IInv, FileIsWhole
<1> QED BY <1>1, <1>2, <1>3, <1>4 DEF IInv

(* Shutting down begins. *)
LEMMA StopKeeps == ASSUME IInv, Stop PROVE IInv'
<1>1. PersistTypeOK'
  BY DEF Stop, disk, bounds, IInv, PersistTypeOK
<1>2. Staged'
  BY DEF Stop, disk, IInv, PersistTypeOK, Staged
<1>3. Ordered'
  BY DEF Stop, disk, IInv, PersistTypeOK, Staged, Ordered
<1>4. FileIsWhole'
  BY DEF Stop, disk, IInv, FileIsWhole
<1> QED BY <1>1, <1>2, <1>3, <1>4 DEF IInv

(* The join: the writer has left its loop. *)
LEMMA JoinKeeps == ASSUME IInv, Join PROVE IInv'
<1>1. PersistTypeOK'
  BY DEF Join, disk, bounds, IInv, PersistTypeOK, Steps
<1>2. Staged'
  BY DEF Join, disk, IInv, PersistTypeOK, Staged
<1>3. Ordered'
  BY DEF Join, disk, IInv, PersistTypeOK, Staged, Ordered
<1>4. FileIsWhole'
  BY DEF Join, disk, IInv, FileIsWhole
<1> QED BY <1>1, <1>2, <1>3, <1>4 DEF IInv

(* The process ends. *)
LEMMA ExitKeeps == ASSUME IInv, Exit PROVE IInv'
<1>1. PersistTypeOK'
  <2>1. /\ stage' \in {"down", "boot", "run", "join", "final"}
        /\ book' \in Versions /\ epoch' \in Versions /\ offered' \in Versions
        /\ fails' \in 0 .. MaxFails /\ boots' \in 0 .. MaxBoots
        /\ losses' \in 0 .. MaxLosses
        /\ buf' \in [Threads -> Versions]
    BY PersistAssumption DEF Exit, Gone, IInv, PersistTypeOK, bounds
  <2>2. blocked' \in BOOLEAN /\ wait' \in BOOLEAN /\ clean' \in BOOLEAN
    BY DEF Exit, Gone
  <2>3. 0 \in Versions
    BY PersistAssumption DEF Versions
  <2>4. mail' \in [full : BOOLEAN, ver : Versions]
    BY <2>3 DEF Exit, Gone
  <2>5. pc' \in [Threads -> Steps]
    BY DEF Exit, Gone, Steps
  <2>6. tmp' \in Texts /\ path' \in Texts /\ may' \subseteq Texts
    BY <2>3 DEF Exit, IInv, PersistTypeOK, disk
  <2> QED BY <2>1, <2>2, <2>4, <2>5, <2>6 DEF PersistTypeOK
<1>2. Staged'
  BY DEF Exit, Gone, disk, IInv, PersistTypeOK, Staged
<1>3. Ordered'
  BY DEF Exit, Gone, disk, IInv, PersistTypeOK, Staged, Ordered
<1>4. FileIsWhole'
  BY DEF Exit, disk, IInv, FileIsWhole
<1> QED BY <1>1, <1>2, <1>3, <1>4 DEF IInv

(* The writer looks at the stop flag. *)
LEMMA TopKeeps == ASSUME IInv, Top PROVE IInv'
<1>1. PersistTypeOK'
  BY DEF Top, process, disk, bounds, IInv, PersistTypeOK, Steps
<1>2. Staged'
  BY DEF Top, process, disk, IInv, PersistTypeOK, Staged
<1>3. Ordered'
  BY DEF Top, process, disk, IInv, PersistTypeOK, Staged, Ordered
<1>4. FileIsWhole'
  BY DEF Top, disk, IInv, FileIsWhole
<1> QED BY <1>1, <1>2, <1>3, <1>4 DEF IInv

(* The writer takes a full slot. *)
LEMMA TakeKeeps == ASSUME IInv, Take PROVE IInv'
<1>1. PersistTypeOK'
  BY DEF Take, process, disk, bounds, IInv, PersistTypeOK, Steps
<1>2. Staged'
  BY DEF Take, process, disk, IInv, PersistTypeOK, Staged
<1>3. Ordered'
  BY DEF Take, process, disk, IInv, PersistTypeOK, Staged, Ordered
<1>4. FileIsWhole'
  BY DEF Take, disk, IInv, FileIsWhole
<1> QED BY <1>1, <1>2, <1>3, <1>4 DEF IInv

(* The slot is handed back once its text is the file. *)
LEMMA WroteKeeps == ASSUME IInv, Wrote PROVE IInv'
<1>1. PersistTypeOK'
  BY DEF Wrote, disk, bounds, IInv, PersistTypeOK, Steps
<1>2. Staged'
  BY DEF Wrote, disk, IInv, PersistTypeOK, Staged
<1>3. Ordered'
  BY DEF Wrote, disk, IInv, PersistTypeOK, Staged, Ordered
<1>4. FileIsWhole'
  BY DEF Wrote, disk, IInv, FileIsWhole
<1> QED BY <1>1, <1>2, <1>3, <1>4 DEF IInv

(* A failed write keeps the slot. *)
LEMMA FailedKeeps == ASSUME IInv, Failed PROVE IInv'
<1>1. PersistTypeOK'
  BY DEF Failed, disk, bounds, IInv, PersistTypeOK, Steps
<1>2. Staged'
  BY DEF Failed, disk, IInv, PersistTypeOK, Staged
<1>3. Ordered'
  BY DEF Failed, disk, IInv, PersistTypeOK, Staged, Ordered
<1>4. FileIsWhole'
  BY DEF Failed, disk, IInv, FileIsWhole
<1> QED BY <1>1, <1>2, <1>3, <1>4 DEF IInv

(* A retry falls due. *)
LEMMA RetryDueKeeps == ASSUME IInv, RetryDue PROVE IInv'
<1>1. PersistTypeOK'
  BY DEF RetryDue, disk, bounds, IInv, PersistTypeOK
<1>2. Staged'
  BY DEF RetryDue, disk, IInv, PersistTypeOK, Staged
<1>3. Ordered'
  BY DEF RetryDue, disk, IInv, PersistTypeOK, Staged, Ordered
<1>4. FileIsWhole'
  BY DEF RetryDue, disk, IInv, FileIsWhole
<1> QED BY <1>1, <1>2, <1>3, <1>4 DEF IInv

(* The process dies. *)
LEMMA CrashKeeps == ASSUME IInv, Crash PROVE IInv'
<1>1. PersistTypeOK'
  <2>1. /\ stage' \in {"down", "boot", "run", "join", "final"}
        /\ book' \in Versions /\ epoch' \in Versions /\ offered' \in Versions
        /\ fails' \in 0 .. MaxFails /\ boots' \in 0 .. MaxBoots
        /\ losses' \in 0 .. MaxLosses
        /\ buf' \in [Threads -> Versions]
    BY PersistAssumption DEF Crash, Gone, IInv, PersistTypeOK, bounds
  <2>2. blocked' \in BOOLEAN /\ wait' \in BOOLEAN /\ clean' \in BOOLEAN
    BY DEF Crash, Gone
  <2>3. 0 \in Versions
    BY PersistAssumption DEF Versions
  <2>4. mail' \in [full : BOOLEAN, ver : Versions]
    BY <2>3 DEF Crash, Gone
  <2>5. pc' \in [Threads -> Steps]
    BY DEF Crash, Gone, Steps
  <2>6. tmp' \in Texts /\ path' \in Texts /\ may' \subseteq Texts
    BY <2>3 DEF Crash, IInv, PersistTypeOK, disk
  <2> QED BY <2>1, <2>2, <2>4, <2>5, <2>6 DEF PersistTypeOK
<1>2. Staged'
  BY DEF Crash, Gone, disk, IInv, PersistTypeOK, Staged
<1>3. Ordered'
  BY DEF Crash, Gone, disk, IInv, PersistTypeOK, Staged, Ordered
<1>4. FileIsWhole'
  BY DEF Crash, disk, IInv, FileIsWhole
<1> QED BY <1>1, <1>2, <1>3, <1>4 DEF IInv

(* The machine dies: every text the name had is whole. *)
LEMMA PowerLossKeeps == ASSUME IInv, PowerLoss PROVE IInv'
<1>1. PersistTypeOK'
  <2>1. /\ stage' \in {"down", "boot", "run", "join", "final"}
        /\ book' \in Versions /\ epoch' \in Versions /\ offered' \in Versions
        /\ fails' \in 0 .. MaxFails /\ boots' \in 0 .. MaxBoots
        /\ losses' \in 0 .. MaxLosses
        /\ buf' \in [Threads -> Versions]
    BY PersistAssumption DEF PowerLoss, Gone, IInv, PersistTypeOK, bounds
  <2>2. blocked' \in BOOLEAN /\ wait' \in BOOLEAN /\ clean' \in BOOLEAN
    BY DEF PowerLoss, Gone
  <2>3. 0 \in Versions
    BY PersistAssumption DEF Versions
  <2>4. mail' \in [full : BOOLEAN, ver : Versions]
    BY <2>3 DEF PowerLoss, Gone
  <2>5. pc' \in [Threads -> Steps]
    BY DEF PowerLoss, Gone, Steps
  <2>6. tmp' \in Texts /\ path' \in Texts /\ may' \subseteq Texts
    BY <2>3 DEF PowerLoss, IInv, PersistTypeOK, Texts, Survives, Truncated, NoTmp
  <2> QED BY <2>1, <2>2, <2>4, <2>5, <2>6 DEF PersistTypeOK
<1>2. Staged'
  BY DEF PowerLoss, Gone, Survives, IInv, PersistTypeOK, Staged, NoTmp
<1>3. Ordered'
  BY PersistAssumption DEF PowerLoss, Gone, Survives, IInv, PersistTypeOK, Staged,
       Ordered, Versions, Texts
<1>4. FileIsWhole'
  BY DEF PowerLoss, Survives, IInv, PersistTypeOK, Staged, FileIsWhole, Texts,
       Written, NoTmp
<1> QED BY <1>1, <1>2, <1>3, <1>4 DEF IInv

(* A stuttering step. *)
LEMMA StutterKeeps == ASSUME IInv, UNCHANGED persistVars PROVE IInv'
<1>1. PersistTypeOK'
  BY DEF persistVars, process, disk, bounds, IInv, PersistTypeOK
<1>2. Staged'
  BY DEF persistVars, process, disk, bounds, IInv, Staged
<1>3. Ordered'
  BY DEF persistVars, process, disk, bounds, IInv, Ordered
<1>4. FileIsWhole'
  BY DEF persistVars, process, disk, bounds, IInv, FileIsWhole
<1> QED BY <1>1, <1>2, <1>3, <1>4 DEF IInv

(* Every step of the process, of the writer thread, of time and of the machine
   keeps the invariant. *)
LEMMA NextKeeps == ASSUME IInv, [PersistNext]_persistVars PROVE IInv'
<1>1. ASSUME NEW t \in Threads, WriteAtomic(t) PROVE IInv'
  BY <1>1, CreateKeeps, WriteAllKeeps, SyncAllKeeps, RenameKeeps, FailKeeps
     DEF WriteAtomic
<1>2. CASE Main
  <2>1. ASSUME NEW did \in Doings, OnTimer(did) PROVE IInv'
    BY <2>1, OnTimerKeeps
  <2> QED BY <1>1, <1>2, <2>1, BootKeeps, BootEndsKeeps, OnFillKeeps,
             OnVenueEventKeeps, StopKeeps, JoinKeeps, ExitKeeps DEF Main
<1>3. CASE Writer
  BY <1>1, <1>3, TopKeeps, TakeKeeps, WroteKeeps, FailedKeeps DEF Writer
<1> QED BY <1>2, <1>3, RetryDueKeeps, CrashKeeps, PowerLossKeeps, StutterKeeps DEF PersistNext

(* The invariant holds of every behaviour of the member, its writer, the
   shutdown and the two ways to die. *)
THEOREM IInvHolds == PersistSpec => []IInv
<1>1. IInv /\ [PersistNext]_persistVars => IInv'
  BY NextKeeps
<1> QED BY InitInv, <1>1, PTL DEF PersistSpec

(* Every variable of the persistence path keeps its type. *)
THEOREM PersistTypeCorrect == PersistSpec => []PersistTypeOK
<1>1. IInv => PersistTypeOK
  BY DEF IInv
<1> QED BY IInvHolds, <1>1, PTL

(* Whatever dies between whichever calls of write_atomic, the state file is a
   whole text. *)
THEOREM StateFileIsWhole == PersistSpec => []FileIsWhole
<1>1. IInv => FileIsWhole
  BY DEF IInv
<1> QED BY IInvHolds, <1>1, PTL

(* The writer and the forced write of the shutdown never share the temp file:
   stop_and_join comes first. *)
THEOREM TempFileHasOneWriter == PersistSpec => []TempHasOneWriter
<1>1. IInv => TempHasOneWriter
  BY OneWriter DEF IInv, TempHasOneWriter
<1> QED BY IInvHolds, <1>1, PTL

(* A slot that is free again was written: Taken::keep holds what a failed write
   did not file. *)
THEOREM HandedBooksAreFiled == PersistSpec => []HandedIsFiled
<1>1. IInv => HandedIsFiled
  BY DEF IInv, Ordered, HandedIsFiled
<1> QED BY IInvHolds, <1>1, PTL

(* A refused offer means the file is behind the book, as book_stale takes it. *)
THEOREM BlockedMeansBehind == PersistSpec => []BlockedIsBehind
<1>1. IInv => BlockedIsBehind
  BY DEF IInv, Ordered, BlockedIsBehind
<1> QED BY IInvHolds, <1>1, PTL

(* Only a rename changes the file while the machine stays up. *)
LEMMA OnlyRename ==
  ASSUME PersistNext, losses' = losses, PersistTypeOK PROVE UNCHANGED path \/ \E t \in Threads : Rename(t)
<1>1. ASSUME NEW t \in Threads, WriteAtomic(t) PROVE UNCHANGED path \/ Rename(t)
  BY <1>1 DEF WriteAtomic, Create, WriteAll, SyncAll, Fail, disk
<1>2. CASE Main
  BY <1>1, <1>2 DEF Main, Boot, BootEnds, OnFill, OnVenueEvent, OnTimer, Stop,
                      Join, Exit, disk
<1>3. CASE Writer
  BY <1>1, <1>3 DEF Writer, Top, Take, Wrote, Failed, disk
<1>4. CASE RetryDue \/ Crash
  BY <1>4 DEF RetryDue, Crash, disk
<1>5. CASE PowerLoss
  BY <1>5 DEF PowerLoss, PersistTypeOK
<1> QED BY <1>2, <1>3, <1>4, <1>5 DEF PersistNext

(* The state file never goes backwards while the machine stays up: a rename
   brings the slot's book, no older than the file, or the live book. *)
THEOREM StateFileNeverGoesBack == PersistSpec => FileNeverGoesBack
<1>1. ASSUME IInv, [PersistNext]_persistVars PROVE [losses' = losses => path'.ver >= path.ver]_persistVars
  <2> SUFFICES ASSUME PersistNext, losses' = losses PROVE path'.ver >= path.ver
    BY <1>1
  <2>1. path.ver \in Nat
    BY <1>1, PersistAssumption DEF IInv, PersistTypeOK, Texts, Versions
  <2>2. CASE UNCHANGED path
    BY <2>1, <2>2
  <2>3. ASSUME NEW t \in Threads, Rename(t) PROVE path'.ver >= path.ver
    <3>1. path'.ver = buf[t]
      BY <1>1, <2>3 DEF IInv, Staged, Rename, Written
    <3>2. buf[t] >= path.ver
      BY <1>1, <2>1, <2>3, PersistAssumption
         DEF IInv, PersistTypeOK, Staged, Ordered, Rename, Versions
    <3> QED BY <3>1, <3>2
  <2> QED BY <1>1, <2>2, <2>3, OnlyRename DEF IInv
<1> QED BY IInvHolds, <1>1, PTL DEF PersistSpec, FileNeverGoesBack

(* Only a boot counts boots, and it takes the file's book. *)
LEMMA OnlyBoot == ASSUME PersistNext, PersistTypeOK, boots' # boots PROVE Boot
<1>1. ASSUME NEW t \in Threads, WriteAtomic(t) PROVE UNCHANGED boots
  BY <1>1 DEF WriteAtomic, Create, WriteAll, SyncAll, Rename, Fail, bounds
<1>2. CASE Main
  BY <1>1, <1>2 DEF Main, BootEnds, OnFill, OnVenueEvent, OnTimer, Stop, Join,
                      Exit, bounds
<1>3. CASE Writer
  BY <1>1, <1>3 DEF Writer, Top, Take, Wrote, Failed, bounds
<1>4. CASE RetryDue \/ Crash \/ PowerLoss
  BY <1>4 DEF RetryDue, Crash, PowerLoss, bounds
<1> QED BY <1>2, <1>3, <1>4 DEF PersistNext

(* After a shutdown whose forced write succeeded the next boot starts from the
   same book, whichever epoch it had. *)
THEOREM CleanRestartKeepsTheBook == PersistSpec => CleanRestartKeepsBook
<1>1. ASSUME IInv, [PersistNext]_persistVars PROVE [boots' # boots /\ clean => book' = book]_persistVars
  <2> SUFFICES ASSUME PersistNext, boots' # boots, clean PROVE book' = book
    BY <1>1
  <2>1. Boot
    BY <1>1, OnlyBoot DEF IInv
  <2> QED BY <1>1, <2>1 DEF Boot, IInv, Ordered
<1> QED BY IInvHolds, <1>1, PTL DEF PersistSpec, CleanRestartKeepsBook

=============================================================================
