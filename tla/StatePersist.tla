---------------------------- MODULE StatePersist ----------------------------
(***************************************************************************)
(* A member's book kept across restarts: the hcv member (strategy-hcv,     *)
(* state.rs) hands copies of its book through a mailbox to a writer thread *)
(* (cli, persist.rs), which writes them with core-io's write_atomic: a     *)
(* temp file, sync_all, rename.  The boot writes the restored book once,   *)
(* and the shutdown joins the writer and writes the live book (paper.rs).  *)
(* The process may die between any two steps, and so may the machine.      *)
(*                                                                         *)
(* A book is its version, a number that every change raises.  The state    *)
(* epoch is the version at the last bump: samples inside a minute change   *)
(* the book and do not move it.  The mailbox is what Mailbox shows it to   *)
(* be, a queue of one.  A missing state file is version 0.                 *)
(***************************************************************************)
EXTENDS Naturals

CONSTANTS MaxBook,   \* bound: the newest version
          MaxFails,  \* bound: failed writes
          MaxBoots,  \* bound: boots
          MaxLosses  \* bound: power losses

ASSUME PersistAssumption ==
  MaxBook \in Nat /\ MaxFails \in Nat /\ MaxBoots \in Nat /\ MaxLosses \in Nat

VARIABLES
  stage,    \* the process: down, boot, run, join or final
  book,     \* the member's book; while down, what it last was
  epoch,    \* state_epoch
  offered,  \* offered_epoch
  blocked,  \* offer_blocked_ns # 0
  mail,     \* the mailbox: [full, ver]
  wait,     \* is the writer's retry_at ahead?
  pc, buf,  \* each thread's step, and the text it is writing
  tmp,      \* the temp file, or NoTmp
  path,     \* the state file, as a reader of its path sees it
  may,      \* what the disk may hold under the name after a power loss
  clean,    \* history: did the last shutdown write the book?
  fails, boots, losses

process == <<stage, book, epoch, offered, blocked, mail, wait>>
disk == <<tmp, path, may>>
bounds == <<fails, boots, losses>>
persistVars == <<process, pc, buf, disk, clean, bounds>>

Threads == {"main", "writer"}
Versions == 0 .. MaxBook
Texts == [ver : Versions, whole : BOOLEAN, synced : BOOLEAN]
NoTmp == [ver |-> 0, whole |-> FALSE, synced |-> TRUE]
Truncated == [ver |-> 0, whole |-> FALSE, synced |-> FALSE]
Written(v) == [ver |-> v, whole |-> TRUE, synced |-> TRUE]

Writing == {"create", "write", "sync", "rename"}
Steps == Writing \cup {"idle", "wrote", "failed", "top", "take", "done"}

(* Every variable keeps its type. *)
PersistTypeOK ==
  /\ stage \in {"down", "boot", "run", "join", "final"}
  /\ book \in Versions /\ epoch \in Versions /\ offered \in Versions
  /\ blocked \in BOOLEAN /\ wait \in BOOLEAN /\ clean \in BOOLEAN
  /\ mail \in [full : BOOLEAN, ver : Versions]
  /\ pc \in [Threads -> Steps]
  /\ buf \in [Threads -> Versions]
  /\ tmp \in Texts /\ path \in Texts /\ may \subseteq Texts
  /\ fails \in 0 .. MaxFails /\ boots \in 0 .. MaxBoots /\ losses \in 0 .. MaxLosses

PersistInit ==
  /\ stage = "down" /\ book = 0 /\ epoch = 0 /\ offered = 0
  /\ blocked = FALSE /\ mail = [full |-> FALSE, ver |-> 0] /\ wait = FALSE
  /\ pc = [t \in Threads |-> "idle"] /\ buf = [t \in Threads |-> 0]
  /\ tmp = NoTmp /\ path = Written(0) /\ may = {Written(0)}
  /\ clean = FALSE
  /\ fails = 0 /\ boots = 0 /\ losses = 0

GoTo(t, step) == pc' = [pc EXCEPT ![t] = step]

---------------------------------------------------------------------------
(* write_atomic, by either thread *)

Create(t) ==
  /\ pc[t] = "create"
  /\ tmp' = Truncated
  /\ GoTo(t, "write")
  /\ UNCHANGED <<process, buf, path, may, clean, bounds>>

(* Over an empty file the text is whole; over another thread's it is not. *)
WriteAll(t) ==
  /\ pc[t] = "write"
  /\ tmp' = [ver |-> buf[t], whole |-> (tmp = Truncated), synced |-> FALSE]
  /\ GoTo(t, "sync")
  /\ UNCHANGED <<process, buf, path, may, clean, bounds>>

(* The bug core-io's module comment records: a temp file and a rename with no sync_all. *)
MutSyncNothing(t) ==
  /\ pc[t] = "sync"
  /\ GoTo(t, "rename")
  /\ UNCHANGED <<process, buf, disk, clean, bounds>>

SyncAll(t) ==
  /\ pc[t] = "sync"
  /\ tmp' = [tmp EXCEPT !.synced = TRUE]
  /\ GoTo(t, "rename")
  /\ UNCHANGED <<process, buf, path, may, clean, bounds>>

(* Atomic for readers, no barrier for the disk: until the next power loss the
   name may come back as anything it has been. *)
Rename(t) ==
  /\ pc[t] = "rename" /\ tmp # NoTmp
  /\ path' = tmp
  /\ may' = may \cup {tmp}
  /\ tmp' = NoTmp
  /\ GoTo(t, "wrote")
  /\ UNCHANGED <<process, buf, clean, bounds>>

(* Any of the four calls returns an error. *)
Fail(t) ==
  /\ pc[t] \in Writing /\ fails < MaxFails
  /\ fails' = fails + 1
  /\ GoTo(t, "failed")
  /\ UNCHANGED <<process, buf, disk, clean, boots, losses>>

WriteAtomic(t) == Create(t) \/ WriteAll(t) \/ SyncAll(t) \/ Rename(t) \/ Fail(t)

---------------------------------------------------------------------------
(* The main thread: boot, run, shut down *)

(* The book is read back and written once before anything trades; a text that is
   not whole refuses the boot.  What restore_state drops of a book it reads
   (residual hedges on underlyings the configuration no longer names) is not
   told apart. *)
Boot ==
  /\ stage = "down" /\ boots < MaxBoots /\ path.whole
  /\ boots' = boots + 1
  /\ stage' = "boot"
  /\ book' = path.ver /\ epoch' = path.ver /\ offered' = path.ver
  /\ buf' = [buf EXCEPT !["main"] = path.ver]
  /\ GoTo("main", "create")
  /\ clean' = FALSE
  /\ UNCHANGED <<blocked, mail, wait, disk, fails, losses>>

(* ... and the writer is spawned; a file that cannot be written, or a thread
   that cannot be spawned, refuses the boot. *)
BootEnds ==
  /\ stage = "boot"
  /\ \/ /\ pc["main"] = "wrote"
        /\ stage' = "run"
        /\ pc' = [main |-> "idle", writer |-> "top"]
     \/ /\ pc["main"] \in {"wrote", "failed"}
        /\ stage' = "down"
        /\ GoTo("main", "idle")
  /\ UNCHANGED <<book, epoch, offered, blocked, mail, wait, buf, disk, clean, bounds>>

(* on_fill: positions and cash change, and the epoch moves. *)
OnFill ==
  /\ stage = "run" /\ book < MaxBook
  /\ book' = book + 1 /\ epoch' = book + 1
  /\ UNCHANGED <<stage, offered, blocked, mail, wait, pc, buf, disk, clean, bounds>>

(* on_venue_event, an oracle price: kept with the book, and no epoch moves. *)
OnVenueEvent ==
  /\ stage = "run" /\ book < MaxBook
  /\ book' = book + 1
  /\ UNCHANGED <<stage, epoch, offered, blocked, mail, wait, pc, buf, disk, clean,
                 bounds>>

(* offer_state with the book at b and the epoch at e: refused while the writer
   holds the slot. *)
OfferState(b, e) ==
  IF e = offered THEN UNCHANGED <<offered, blocked, mail>>
  ELSE IF mail.full THEN blocked' = TRUE /\ UNCHANGED <<offered, mail>>
  ELSE /\ offered' = e
       /\ mail' = [full |-> TRUE, ver |-> b]
       /\ blocked' = FALSE

(* What a timer may have done to the book: a sample inside a minute moves no
   epoch; a minute's first sample, a settlement and a new day do. *)
Doings == {"nothing", "sampled", "booked"}

(* A bug: a timer that changed nothing itself returns before the offer. *)
MutOnTimerReturnsEarly(did) ==
  LET b == IF did = "nothing" THEN book ELSE book + 1
      e == IF did = "booked" THEN b ELSE epoch
  IN  /\ stage = "run" /\ b <= MaxBook
      /\ book' = b /\ epoch' = e
      /\ IF did = "nothing" THEN UNCHANGED <<offered, blocked, mail>> ELSE OfferState(b, e)
      /\ UNCHANGED <<stage, wait, pc, buf, disk, clean, bounds>>

(* on_timer, whose last call is offer_state. *)
OnTimer(did) ==
  LET b == IF did = "nothing" THEN book ELSE book + 1
      e == IF did = "booked" THEN b ELSE epoch
  IN  /\ stage = "run" /\ b <= MaxBook
      /\ book' = b /\ epoch' = e
      /\ OfferState(b, e)
      /\ UNCHANGED <<stage, wait, pc, buf, disk, clean, bounds>>

(* stop_and_join begins: the stop flag is up. *)
Stop ==
  /\ stage = "run"
  /\ stage' = "join"
  /\ UNCHANGED <<book, epoch, offered, blocked, mail, wait, pc, buf, disk, clean,
                 bounds>>

(* A bug: the forced write does not wait for the writer. *)
MutJoinAtOnce ==
  /\ stage = "join"
  /\ stage' = "final"
  /\ buf' = [buf EXCEPT !["main"] = book]
  /\ GoTo("main", "create")
  /\ UNCHANGED <<book, epoch, offered, blocked, mail, wait, disk, clean, bounds>>

(* A bug: a book whose epoch was handed over is not written again. *)
MutJoinWritesMoved ==
  /\ stage = "join" /\ pc["writer"] = "done"
  /\ IF epoch = offered
       THEN stage' = "down" /\ clean' = TRUE /\ UNCHANGED <<buf, pc>>
       ELSE /\ stage' = "final"
            /\ buf' = [buf EXCEPT !["main"] = book]
            /\ GoTo("main", "create")
            /\ UNCHANGED clean
  /\ UNCHANGED <<book, epoch, offered, blocked, mail, wait, disk, bounds>>

(* The writer is joined; the live book is written whatever its epoch.  What
   the mailbox still holds is dropped. *)
Join ==
  /\ stage = "join" /\ pc["writer"] = "done"
  /\ stage' = "final"
  /\ buf' = [buf EXCEPT !["main"] = book]
  /\ GoTo("main", "create")
  /\ UNCHANGED <<book, epoch, offered, blocked, mail, wait, disk, clean, bounds>>

(* What a process leaves behind when it ends: nothing but the disk. *)
Gone ==
  /\ stage' = "down"
  /\ blocked' = FALSE /\ wait' = FALSE
  /\ mail' = [full |-> FALSE, ver |-> 0]
  /\ pc' = [t \in Threads |-> "idle"]

Exit ==
  /\ stage = "final" /\ pc["main"] \in {"wrote", "failed"}
  /\ clean' = (pc["main"] = "wrote")
  /\ Gone
  /\ UNCHANGED <<book, epoch, offered, buf, disk, bounds>>

---------------------------------------------------------------------------
(* The writer thread: persist.rs, run *)

Top ==
  /\ pc["writer"] = "top"
  /\ GoTo("writer", IF stage = "run" THEN "take" ELSE "done")
  /\ UNCHANGED <<process, buf, disk, clean, bounds>>

(* A full slot is lent and rendered unless its retry is ahead. *)
Take ==
  /\ pc["writer"] = "take"
  /\ IF mail.full /\ ~ wait
       THEN /\ buf' = [buf EXCEPT !["writer"] = mail.ver]
            /\ GoTo("writer", "create")
       ELSE /\ GoTo("writer", "top")
            /\ UNCHANGED buf
  /\ UNCHANGED <<process, disk, clean, bounds>>

(* The guard is dropped: the slot is free again. *)
Wrote ==
  /\ pc["writer"] = "wrote"
  /\ mail' = [mail EXCEPT !.full = FALSE]
  /\ GoTo("writer", "top")
  /\ UNCHANGED <<stage, book, epoch, offered, blocked, wait, buf, disk, clean, bounds>>

(* A bug: a failed write drops the slot. *)
MutFailedFrees ==
  /\ pc["writer"] = "failed"
  /\ wait' = TRUE
  /\ mail' = [mail EXCEPT !.full = FALSE]
  /\ GoTo("writer", "top")
  /\ UNCHANGED <<stage, book, epoch, offered, blocked, buf, disk, clean, bounds>>

(* Taken::keep: the slot stays full and is tried again later. *)
Failed ==
  /\ pc["writer"] = "failed"
  /\ wait' = TRUE
  /\ GoTo("writer", "top")
  /\ UNCHANGED <<stage, book, epoch, offered, blocked, mail, buf, disk, clean, bounds>>

RetryDue ==
  /\ wait
  /\ wait' = FALSE
  /\ UNCHANGED <<stage, book, epoch, offered, blocked, mail, pc, buf, disk, clean,
                 bounds>>

Writer == Top \/ Take \/ Wrote \/ Failed \/ WriteAtomic("writer")

---------------------------------------------------------------------------
(* The process dies: the disk is as its calls left it. *)
Crash ==
  /\ stage # "down"
  /\ clean' = FALSE
  /\ Gone
  /\ UNCHANGED <<book, epoch, offered, buf, disk, bounds>>

(* What is read back of a text that was never synced is not whole. *)
Survives(text) == IF text.synced THEN text ELSE Truncated

(* The machine dies: the name is one of those it had, the temp file is lost. *)
PowerLoss ==
  /\ losses < MaxLosses
  /\ losses' = losses + 1
  /\ \E text \in may : path' = Survives(text) /\ may' = {Survives(text)}
  /\ tmp' = NoTmp
  /\ clean' = FALSE
  /\ Gone
  /\ UNCHANGED <<book, epoch, offered, buf, fails, boots>>

Main == \/ Boot \/ BootEnds \/ OnFill \/ OnVenueEvent
        \/ (\E did \in Doings : OnTimer(did)) \/ Stop \/ Join \/ Exit \/ WriteAtomic("main")

PersistNext == Main \/ Writer \/ RetryDue \/ Crash \/ PowerLoss

PersistSpec == PersistInit /\ [][PersistNext]_persistVars

(* The member's timer fires, the writer thread runs and time passes.  A write
   may fail at most MaxFails times. *)
PersistFairSpec ==
  /\ PersistSpec
  /\ WF_persistVars(OnTimer("nothing")) /\ WF_persistVars(Writer) /\ WF_persistVars(RetryDue)

---------------------------------------------------------------------------
(* Properties *)

(* Who is at work in each stage: the main thread writes at boot and at the end,
   the writer in between, and the temp file is the one's whose step it is. *)
Staged ==
  /\ stage \in {"down", "run", "join"} => pc["main"] = "idle"
  /\ stage \in {"boot", "final"} => pc["main"] \in Writing \cup {"wrote", "failed"}
  /\ stage \in {"down", "boot", "final"} => pc["writer"] \in {"idle", "done"}
  /\ \A t \in Threads :
       /\ pc[t] = "write" => tmp = Truncated
       /\ pc[t] = "sync" => tmp = [ver |-> buf[t], whole |-> TRUE, synced |-> FALSE]
       /\ pc[t] = "rename" => tmp = Written(buf[t])

(* How old each copy of the book may be: the text being written is no older than
   the file and no newer than the slot, the slot no newer than the book, and an
   epoch not yet handed over is newer than both. *)
Ordered ==
  /\ stage \in {"down", "boot"} => ~ mail.full /\ ~ blocked
  /\ clean => stage = "down" /\ path.ver = book
  /\ stage # "down" =>
      /\ path.ver <= book /\ offered <= epoch /\ epoch <= book
      /\ pc["main"] \in Writing => buf["main"] = book
      /\ pc["main"] = "wrote" => path.ver = book
      /\ stage = "boot" => offered = book /\ path.ver = book
      /\ stage \in {"run", "join"} =>
           /\ pc["writer"] \in Writing \cup {"wrote", "failed"} =>
                mail.full /\ buf["writer"] = mail.ver
           /\ pc["writer"] = "wrote" => path.ver = mail.ver
           /\ mail.full => /\ path.ver <= mail.ver /\ offered <= mail.ver
                           /\ mail.ver <= book
           /\ ~ mail.full => offered <= path.ver
           /\ epoch # offered => /\ path.ver < epoch
                                 /\ mail.full => mail.ver < epoch
      /\ stage \in {"run", "join"} /\ blocked => epoch # offered

(* Whatever dies between whichever steps, the state file is a whole text that
   was written: never the half of one, never empty (write_atomic's order). *)
FileIsWhole == path.whole /\ path.synced /\ \A text \in may : text.whole /\ text.synced

(* The boot's, the writer's and the shutdown's writes never share the temp
   file (the join comes first). *)
TempHasOneWriter == ~ (pc["main"] \in Writing /\ pc["writer"] \in Writing)

(* The file never goes backwards, but for a power loss: a kept slot is written
   before a newer book is taken, and no late write lands on the forced one. *)
FileNeverGoesBack == [][losses' = losses => path'.ver >= path.ver]_persistVars

(* A free slot means that what was handed over last is in the file: a write
   that failed keeps its slot (Taken::keep). *)
HandedIsFiled == stage = "run" /\ ~ mail.full => path.ver >= offered

(* book_stale's premise: while an offer stands refused the file is behind the
   book, so stopping new risk is not for nothing. *)
BlockedIsBehind == stage = "run" /\ blocked => path.ver < epoch

(* A shutdown that wrote its book loses nothing of it, not even the samples
   that moved no epoch: the next boot starts from the same book. *)
CleanRestartKeepsBook ==
  [][boots' # boots /\ clean => book' = book]_persistVars

(* A bumped book reaches the file while the process runs, refused offers and
   failed writes notwithstanding. *)
FileCatchesUp ==
  \A v \in Versions :
    (stage = "run" /\ epoch >= v) ~> (path.ver >= v \/ stage # "run")
=============================================================================
