------------------------------ MODULE DeadMan ------------------------------
(***************************************************************************)
(* The venue's dead-man switch (exec-hyperliquid/src/deadman.rs) against a *)
(* venue that holds one scheduled cancel-all, a gateway that may be slow,  *)
(* refuse or report early, and a venue clock that is off by up to a skew.  *)
(*                                                                         *)
(* Time is discrete and is the arm's wall clock; one unit is a push period *)
(* over Rearm.  The arm polls on every pass and a pass is far shorter than *)
(* a unit, so time moves only after a poll has seen everything that        *)
(* happened before - a pass that does not come is a fault (Tick).          *)
(*                                                                         *)
(* Abstracted: client ids (one post is in flight, its verdict is matched   *)
(* by id; a verdict on anything else is routed on), the counters.  The     *)
(* gateway between the ring and the wire, and the venue, are external.     *)
(***************************************************************************)
EXTENDS Integers

CONSTANTS
  Horizon, Rearm, Answer, Skew, Backoff, MaxTriggers, \* DeadManCfg
  Lead,           \* MIN_LEAD_MS
  MaxHorizon,     \* MAX_HORIZON_MS
  RefusalsToPark, \* REFUSALS_TO_PARK
  Day,            \* DAY_MS
  Start, MaxTime, \* bounds: the boot and the end of the time explored
  MaxToggles,     \* bound: changes of what the arm wants
  MaxFaults       \* bound: what goes wrong

(* DeadManCfg::validate, and: a gateway answers before the next push is due*)
(* (the default has the two equal) and later than the clocks disagree.     *)
DeadManAssumption ==
  /\ {Horizon, Rearm, Answer, Backoff, MaxTriggers, Lead, MaxHorizon,
      RefusalsToPark, Day} \subseteq Nat \ {0}
  /\ {Skew, Start, MaxTime, MaxToggles, MaxFaults} \subseteq Nat
  /\ Backoff >= Answer
  /\ Skew <= Lead
  /\ Horizon \in Rearm + Answer + Lead .. MaxHorizon
  /\ Skew < Answer /\ Answer <= Rearm
  /\ Start >= Rearm

VARIABLES
  now,      \* the arm's clock
  sw,       \* the switch
  want,     \* the arm may have orders resting and is alone on the account
  polled,   \* the arm has polled since anything last happened
  post,     \* the post in flight, and where it is
  limbo,    \* posts reported in doubt that may still land
  held,     \* the time the venue will cancel all at; 0 = none
  off,      \* the venue's clock less the arm's
  eligible, \* the venue keeps schedules for this account
  calm,     \* history: when anything but an accepted post last happened
  toggles, faults

vars == <<now, sw, want, polled, post, limbo, held, off, eligible, calm,
          toggles, faults>>

venue == <<held, off, eligible>>

(* Where the post in flight is: in the ring or the gateway, on the wire    *)
(* since it was signed at s, or answered by the venue.  A slow one takes   *)
(* longer than a post should.                                              *)
Nowhere == [at |-> "none", s |-> 0, slow |-> FALSE]

VenueNow == now + off

(* A post signed at s carries expiresAfter = s + Answer.                   *)
Expired(s) == VenueNow > s + Answer

Boot == [day |-> 0, deadline |-> 0, lastArm |-> 0, lastPost |-> 0, quiet |-> 0,
         armsUntil |-> 0, time |-> 0, inFlight |-> FALSE, bootClear |-> TRUE,
         avail |-> "unknown", triggers |-> 0, refusals |-> 0]

(* A previous process may have left a schedule, at most MaxHorizon ahead;  *)
(* its posts have expired.                                                 *)
Init ==
  /\ now = Start /\ calm = Start
  /\ sw = Boot
  /\ want \in BOOLEAN /\ polled = FALSE
  /\ post = Nowhere /\ limbo = {}
  /\ off \in -Skew .. Skew /\ eligible \in BOOLEAN
  /\ held \in {0, Start + MaxHorizon}
  /\ toggles = 0 /\ faults = 0

-----------------------------------------------------------------------------
(* The switch.                                                             *)

Parked(s) == s.avail \in {"refused", "exhausted"}

Roll(s) ==
  IF now \div Day = s.day THEN s
  ELSE [s EXCEPT !.day = now \div Day, !.triggers = 0, !.refusals = 0,
                 !.avail = CASE @ = "refused" -> "unknown"
                             [] @ = "exhausted" -> "eligible"
                             [] OTHER -> @]

(* A deadline the venue may hold that passed unmoved is counted as fired.  *)
Trigger(s) ==
  IF s.deadline = 0 \/ now < s.deadline THEN s
  ELSE [s EXCEPT !.deadline = 0, !.triggers = @ + 1,
                 !.avail = IF s.triggers + 1 >= MaxTriggers THEN "exhausted"
                           ELSE @]

(* Post nothing for a while, then at once.                                 *)
Retry(s, wait) ==
  [s EXCEPT !.lastArm = 0, !.lastPost = 0, !.quiet = now + wait]

Wanted(s) == want /\ ~Parked(s)

\* Mutant: a push goes when the lead is all that is left.
MutMayPushLate(s) ==
  now >= s.armsUntil
  /\ IF s.deadline # 0 THEN now >= s.deadline - Lead
     ELSE now >= s.lastPost + Rearm

MayPush(s) ==
  LET since == IF s.deadline # 0 THEN s.lastArm ELSE s.lastPost
  IN  now >= s.armsUntil /\ now >= since + Rearm

Arms(s) == ~s.bootClear /\ Wanted(s) /\ MayPush(s)
\* Mutant: a schedule no longer wanted is left to run out.
MutClearsBootOnly(s) == s.bootClear

Clears(s) == s.bootClear \/ (~Wanted(s) /\ s.deadline # 0)
Posts(s) == ~s.inFlight /\ now >= s.quiet /\ (Arms(s) \/ Clears(s))

Posted(s) ==
  LET time == IF Arms(s) THEN now + Horizon ELSE 0
  IN  [s EXCEPT !.inFlight = TRUE, !.time = time, !.lastPost = now,
                !.lastArm = IF Arms(s) THEN now ELSE @]

Unsent(s) == Retry([s EXCEPT !.inFlight = FALSE], Answer)

(* poll, then the push to the command ring, which may be full.             *)
Poll ==
  LET s == Trigger(Roll(sw))
  IN  /\ ~polled
      /\ polled' = TRUE
      /\ \/ /\ ~Posts(s)
            /\ sw' = s
            /\ UNCHANGED <<post, faults>>
         \/ /\ Posts(s)
            /\ sw' = Posted(s)
            /\ post' = [Nowhere EXCEPT !.at = "ring"]
            /\ UNCHANGED faults
         \/ /\ Posts(s)
            /\ faults < MaxFaults /\ faults' = faults + 1
            /\ sw' = Unsent(Posted(s))
            /\ UNCHANGED post
      /\ calm' = IF sw'.avail # sw.avail \/ faults' # faults THEN now ELSE calm
      /\ UNCHANGED <<now, want, limbo, venue, toggles>>

NeverLeft(s) == Retry(s, Answer)

Acked(s) ==
  [s EXCEPT !.deadline = s.time, !.bootClear = FALSE,
            !.refusals = IF s.time # 0 THEN 0 ELSE @,
            !.avail = IF s.time # 0 /\ @ = "unknown" THEN "eligible" ELSE @]

RateLimited(s) == Retry(s, Backoff)

ClearRefused(s) ==
  Retry([s EXCEPT !.bootClear = FALSE,
                  !.deadline = IF s.bootClear /\ @ = 0 THEN now + MaxHorizon
                               ELSE @],
        Answer)

ArmRefused(s) ==
  LET n == s.refusals + 1
      hold == IF n = 1 THEN Answer ELSE Backoff
  IN  IF n >= RefusalsToPark
      THEN [s EXCEPT !.refusals = n, !.avail = "refused"]
      ELSE [s EXCEPT !.refusals = n, !.lastArm = 0, !.lastPost = 0,
                     !.armsUntil = now + hold]

\* Mutant: the quiet after a post in doubt leaves the clock skew out.
MutInDoubtNoSkew(s) ==
  Retry([s EXCEPT !.deadline = IF s.time > @ THEN s.time ELSE @], Answer)

(* The post may still land until an answer and a skew after this verdict.  *)
InDoubt(s) ==
  Retry([s EXCEPT !.deadline = IF s.time > @ THEN s.time ELSE @],
        Answer + Skew)

Judged(s, verdict) ==
  CASE verdict = "never_left" -> NeverLeft(s)
    [] verdict = "ack"        -> Acked(s)
    [] verdict = "limited"    -> RateLimited(s)
    [] verdict = "refused"    -> IF s.time = 0 THEN ClearRefused(s)
                                 ELSE ArmRefused(s)
    [] verdict = "unanswered" -> InDoubt(s)

Settled == ~sw.bootClear
Quiescent == ~sw.inFlight /\ (sw.deadline = 0 \/ now >= sw.deadline)

(* on_event.  A push accepted in time is calm weather; anything else       *)
(* (the boot clear included) is news.                                      *)
OnEvent(verdict) ==
  /\ sw' = Judged([sw EXCEPT !.inFlight = FALSE], verdict)
  /\ calm' = IF verdict = "ack" /\ Settled /\ ~post.slow THEN calm ELSE now
  /\ post' = Nowhere /\ polled' = FALSE
  /\ UNCHANGED <<now, want, venue, toggles>>

-----------------------------------------------------------------------------
(* The gateway and the venue.                                              *)

Fault == faults < MaxFaults /\ faults' = faults + 1

(* The gateway signs the post and writes it.                               *)
Sign ==
  /\ post.at = "ring"
  /\ post' = [post EXCEPT !.at = "wire", !.s = now]
  /\ UNCHANGED <<now, sw, want, polled, limbo, venue, calm, toggles, faults>>

(* The post in flight is held up: in the gateway, on the way, or its answer*)
(* on the way back.                                                        *)
HeldUp ==
  /\ sw.inFlight /\ ~post.slow
  /\ Fault
  /\ post' = [post EXCEPT !.slow = TRUE]
  /\ calm' = now
  /\ UNCHANGED <<now, sw, want, polled, limbo, venue, toggles>>

(* The venue takes a post some time after it was signed.  It refuses one   *)
(* that expired, and an arm that is not a lead ahead or that the account is*)
(* not eligible for; the schedule it takes replaces the one it holds.      *)
Takes(t, s) == ~Expired(s) /\ (t = 0 \/ (eligible /\ t >= VenueNow + Lead))

Land ==
  /\ post.at = "wire" /\ now > post.s
  /\ IF Takes(sw.time, post.s)
     THEN /\ held' = sw.time
          /\ post' = [post EXCEPT !.at = "ack"]
     ELSE /\ post' = [post EXCEPT !.at = "refused"]
          /\ UNCHANGED held
  /\ UNCHANGED <<now, sw, want, polled, limbo, off, eligible, calm, toggles,
                 faults>>

LandLate(p) ==
  /\ p \in limbo /\ now > p.s
  /\ limbo' = limbo \ {p}
  /\ held' = IF Takes(p.t, p.s) THEN p.t ELSE held
  /\ UNCHANGED <<now, sw, want, polled, post, off, eligible, calm, toggles,
                 faults>>

(* It refuses a post, or limits the account, for a reason of its own.      *)
Refuse(why) ==
  /\ post.at = "wire" /\ now > post.s
  /\ Fault
  /\ post' = [post EXCEPT !.at = why]
  /\ UNCHANGED <<now, sw, want, polled, limbo, venue, calm, toggles>>

(* It cancels all when its clock reaches the time it holds.                *)
Due == held # 0 /\ VenueNow >= held
Fire ==
  /\ Due
  /\ held' = 0
  /\ UNCHANGED <<now, sw, want, polled, post, limbo, off, eligible, calm,
                 toggles, faults>>

(* The gateway's verdicts: the venue's answer; its own refusal of a post it*)
(* has not signed or could not write; and, of a slow post, that it is in   *)
(* doubt - at the gateway's timeout or early.                              *)
Answered ==
  /\ post.at \in {"ack", "refused", "limited"}
  /\ OnEvent(post.at)
  /\ UNCHANGED <<limbo, faults>>

Rejected ==
  /\ post.at = "ring"
  /\ IF post.slow THEN UNCHANGED faults ELSE Fault
  /\ OnEvent("never_left")
  /\ UNCHANGED limbo

Unanswered ==
  /\ post.at \notin {"none", "ring"} /\ post.slow
  /\ OnEvent("unanswered")
  /\ limbo' = IF post.at = "wire"
              THEN limbo \cup {[t |-> sw.time, s |-> post.s]} ELSE limbo
  /\ UNCHANGED faults

-----------------------------------------------------------------------------
(* The arm and the clock.                                                  *)

(* What deadman_wanted says changes with the orders resting and the account*)
Toggle ==
  /\ toggles < MaxToggles /\ toggles' = toggles + 1
  /\ want' = ~want
  /\ calm' = now /\ polled' = FALSE
  /\ UNCHANGED <<now, sw, post, limbo, venue, faults>>

(* Time does not pass what must have happened: the venue fires when due; a *)
(* post is signed at once, lands before it expires and is answered within  *)
(* the gateway's timeout - or, a slow one, is reported in doubt by then.   *)
OnTime ==
  /\ ~Due
  /\ post.at = "ring" => post.slow
  /\ post.at \notin {"none", "ring"} => now < post.s + Answer
  /\ post.at = "wire" /\ ~post.slow => VenueNow < post.s + Answer

Tick ==
  /\ now < MaxTime /\ OnTime
  /\ now' = now + 1
  /\ \/ polled /\ UNCHANGED <<faults, calm>>
     \/ ~polled /\ Fault /\ calm' = now + 1  \* the arm's thread stalls
  /\ polled' = FALSE
  /\ limbo' = {p \in limbo : VenueNow + 1 <= p.s + Answer}
  /\ UNCHANGED <<sw, want, post, venue, toggles>>

Next ==
  \/ Poll \/ Answered \/ Rejected \/ Unanswered
  \/ Sign \/ HeldUp \/ Land \/ Fire
  \/ \E p \in limbo : LandLate(p)
  \/ \E why \in {"refused", "limited"} : Refuse(why)
  \/ Toggle \/ Tick

Spec == Init /\ [][Next]_vars

-----------------------------------------------------------------------------
Times == 0 .. MaxTime + MaxHorizon

(* Every field keeps its type, and a post is in flight for the switch      *)
(* exactly when the gateway owes a verdict on it.                          *)
TypeOK ==
  /\ now \in Start .. MaxTime /\ calm \in Start .. MaxTime + 1
  /\ sw \in [day : 0 .. MaxTime, deadline : Times, lastArm : Times,
             lastPost : Times, quiet : 0 .. MaxTime + Answer + Skew + Backoff,
             armsUntil : 0 .. MaxTime + Backoff, time : Times,
             inFlight : BOOLEAN, bootClear : BOOLEAN,
             avail : {"unknown", "eligible", "refused", "exhausted"},
             triggers : Nat, refusals : 0 .. RefusalsToPark]
  /\ post.at \in {"none", "ring", "wire", "ack", "refused", "limited"}
  /\ sw.inFlight <=> post.at # "none"
  /\ limbo \subseteq [t : Times, s : Times]

(* Once the boot clear is answered, no time the venue holds, or may still  *)
(* come to hold, lies beyond what the switch counts with: the deadline it  *)
(* keeps, or the post it has in flight.  So `quiescent` means that nothing *)
(* can fire later, whatever was late, refused or in doubt before (the      *)
(* ordering rule E-5: a quiet of an answer and a skew after a post in      *)
(* doubt, and an in-doubt arm's deadline kept).                            *)
ScheduleIsKnown ==
  Settled =>
    \A t \in {held} \cup {p.t : p \in limbo} :
      t > now => t <= sw.deadline \/ (sw.inFlight /\ t = sw.time)

(* Calm for the last n: no fault, refusal or change of mind, the quiet and *)
(* the back-off that follow one over, and no post held up in the gateway.  *)
CalmFor(n) ==
  ~post.slow /\ \A t \in {calm, sw.quiet, sw.armsUntil} : now > t + n

(* While the arm wants it and the switch is not parked, the venue holds a  *)
(* schedule from a period and an answer into every calm on: it does        *)
(* not fire under a live engine, and is set again after whatever went wrong*)
WantedIsArmed ==
  Settled /\ Wanted(sw) /\ eligible /\ CalmFor(Rearm + Answer) => held # 0

(* While it is not wanted, the switch is quiescent two answers after the   *)
(* last unrest, which is what the arm's shutdown waits for.                *)
ShutdownQuiesces ==
  Settled /\ ~Wanted(sw) /\ CalmFor(2 * Answer) => Quiescent

=============================================================================
