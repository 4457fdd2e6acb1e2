--------------------------- MODULE CronJobs_proofs ---------------------------
(***************************************************************************)
(* What the claims of cron/jobs.py promise, proved for any number of jobs, *)
(* processes, claims, crashes and commands.                                *)
(*                                                                         *)
(* The argument: whoever carries out a job is named by the claim in the    *)
(* file and lives, so that a process which can see him does not take the   *)
(* claim; and a claim that was taken never names its old owner again.      *)
(*                                                                         *)
(* Two more things rest on it. A job with a workdir runs under the write   *)
(* lock of its process, so the directory is the one it set. And a time of  *)
(* the schedule is spent when it is claimed: the next run that the file    *)
(* shows was claimed by nobody yet, but for a one-shot whose claim was     *)
(* taken without a result (NextBook).                                      *)
(***************************************************************************)
EXTENDS CronJobs, TLAPS

Row == [here : {"new", "here", "gone"}, kind : Kinds, on : BOOLEAN, paused : BOOLEAN, at : Nat,
        due : BOOLEAN, when : Nat, ran : BOOLEAN, times : Nat, done : Nat,
        claim : Fires \union {None}, late : BOOLEAN]

Fire == [job : Jobs \union {NoJob}, proc : Procs \union {NoProc}, how : {"tick", "hand"},
         kind : Kinds, slot : Nat, at : Phases, was : Jobs \union {NoJob}]

Tick == [by : Procs \union {NoProc}, todo : SUBSET (Jobs \X Nat), won : SUBSET Fires,
         mine : SUBSET Fires]

Commands == [op : {"none", "resume", "edit", "repeat"}, job : Jobs \union {NoJob}, kind : Kinds,
             at : Nat, due : BOOLEAN, paused : BOOLEAN, done : Nat]

\* A fire that was made has a job and a process, another has neither.
Made ==
  \A t \in Fires : IF fire[t].at # "none" THEN fire[t].job \in Jobs /\ fire[t].proc \in Procs
                  ELSE fire[t].proc = NoProc

FileTyped == row \in [Jobs -> Row] /\ stamp \in Nat
FiresTyped == fire \in [Fires -> Fire] /\ Made
ProcsTyped ==
  /\ proc \in [Procs -> BOOLEAN] /\ running \in [Procs -> SUBSET Jobs]
  /\ cwd \in [Procs -> Jobs \union {NoJob}]
CommandTyped == command \in Commands /\ (command.op # "none" => command.job \in Jobs)
RestTyped ==
  /\ plan \in Scenarios /\ recorded \subseteq Fires /\ replaced \subseteq Fires
  /\ falls \in Nat /\ acts \in Nat /\ ills \in Nat

Typed == FileTyped /\ FiresTyped /\ ProcsTyped /\ tick \in Tick /\ CommandTyped /\ RestTyped

\* The tick is some living process's, and what it has won waits for it.
TickBook ==
  /\ tick.by = NoProc => tick = NoTick
  /\ tick.by # NoProc => proc[tick.by]
  /\ \A t \in tick.won : fire[t].at = "won" /\ fire[t].proc = tick.by

\* A claim in the file names a fire of its job.
ClaimBook ==
  \A j \in Jobs : row[j].claim # None =>
    fire[row[j].claim].job = j /\ fire[row[j].claim].at # "none"

\* Who carries out a job lives, and has its claim if the processes see one another.
AliveBook == \A t \in Fires : Executing(t) => proc[fire[t].proc]
HeldBook == plan.together => \A t \in Fires : Executing(t) => row[fire[t].job].claim = t

\* A claim that was taken, or whose result was recorded, is in the file no more.
SilentBook ==
  /\ \A t \in replaced \union recorded : fire[t].at # "none" /\ row[fire[t].job].claim # t
  /\ StolenStaysSilent

ClaimBooks == ClaimBook /\ AliveBook /\ HeldBook /\ SilentBook

\* A job with a workdir works alone in its process, in its workdir.
CwdBook ==
  /\ WorkdirIsOwn
  /\ \A t, u \in Fires :
       fire[t].at = "running" /\ fire[u].at = "running" /\ fire[t].proc = fire[u].proc /\ Dir(t)
         => t = u

\* The inductive invariant.
IndInv == Typed /\ TickBook /\ ClaimBooks

-----------------------------------------------------------------------------
(* Types.                                                                  *)

LEMMA PhaseFacts ==
  /\ None \notin Fires
  /\ {"none", "won", "queued", "waiting", "running", "ran", "marking", "marked", "over",
      "released", "forsaken", "dead"} \subseteq Phases
  /\ Fires \subseteq Nat
BY DEF None, Fires, Phases

LEMMA TypedIsTypeOK == Typed => CronTypeOK
BY DEF Typed, CronTypeOK, FileTyped, FiresTyped, ProcsTyped, CommandTyped, RestTyped, Row, Fire,
  Tick, Commands, Made

LEMMA InitTyped == Init => Typed
<1> SUFFICES ASSUME Init PROVE Typed
  OBVIOUS
<1> USE CronAssumption, PhaseFacts
<1>1. plan \in Scenario
  BY DEF Init
<1>2. plan.kind \in [Jobs -> Kinds] /\ plan.times \in [Jobs -> Nat]
  BY <1>1 DEF Scenario
<1>3. FileTyped
  BY <1>2 DEF Init, FileTyped, Row, Kinds
<1>4. FiresTyped
  BY DEF Init, FiresTyped, Made, Fire, Kinds
<1>5. ProcsTyped /\ RestTyped
  BY DEF Init, ProcsTyped, RestTyped
<1>6. tick \in Tick /\ CommandTyped
  BY DEF Init, NoTick, Tick, CommandTyped, Commands, NoCommand, Kinds
<1> QED BY <1>3, <1>4, <1>5, <1>6 DEF Typed

\* Moving a fire that was made to another phase.
LEMMA AdvanceTyped ==
  ASSUME FiresTyped, NEW t \in Fires, fire[t].at # "none", NEW at \in Phases \ {"none"},
         Advances(t, at)
  PROVE  FiresTyped'
<1>1. [fire[t] EXCEPT !.at = at] \in Fire
  BY DEF FiresTyped, Fire
<1>2. fire' = [fire EXCEPT ![t] = [fire[t] EXCEPT !.at = at]]
  BY DEF Advances, FiresTyped
<1>3. fire'[t].job \in Jobs /\ fire'[t].proc \in Procs /\ fire'[t].at # "none"
  BY <1>1, <1>2 DEF FiresTyped, Made, Fire
<1> QED BY <1>1, <1>2, <1>3 DEF FiresTyped, Made

LEMMA ReleaseTyped ==
  ASSUME FileTyped, NEW t \in Fires, fire[t].job \in Jobs
  PROVE  ReleasedClaim(t) \in [Jobs -> Row]
BY DEF FileTyped, Row, ReleasedClaim

LEMMA MarkedTyped ==
  ASSUME NEW r \in Row, NEW n \in Nat
  PROVE  [r EXCEPT !.claim = None, !.late = FALSE, !.ran = TRUE, !.done = n] \in Row
BY DEF Row

LEMMA EndedTyped ==
  ASSUME NEW r \in Row, NEW on \in BOOLEAN
  PROVE  /\ [r EXCEPT !.on = on, !.paused = FALSE] \in Row
         /\ [r EXCEPT !.at = 0, !.due = FALSE] \in Row
         /\ [r EXCEPT !.here = "gone"] \in Row
BY DEF Row

LEMMA CompletedTyped ==
  ASSUME NEW r \in Row PROVE Completed(r) \in Row
<1> DEFINE done == [r EXCEPT !.claim = None, !.late = FALSE, !.ran = TRUE, !.done = @ + 1]
           next == IF r.kind = "every" THEN done ELSE [done EXCEPT !.at = 0, !.due = FALSE]
<1>1. r.done + 1 \in Nat
  BY DEF Row
<1>2. done \in Row
  BY <1>1, MarkedTyped
<1> HIDE DEF done
<1>3. next \in Row
  BY <1>2, EndedTyped
<1> HIDE DEF next
<1>4. [done EXCEPT !.here = "gone"] \in Row
  BY <1>2, EndedTyped
<1>5. [next EXCEPT !.on = (r.kind = "every"), !.paused = FALSE] \in Row
  BY <1>3, EndedTyped
<1> QED BY <1>3, <1>4, <1>5 DEF Completed, done, next

LEMMA ClaimTyped ==
  ASSUME FileTyped, FiresTyped, RestTyped,
         NEW t \in Fires, NEW p \in Procs, NEW j \in Jobs, NEW how \in {"tick", "hand"},
         NEW slot \in Nat, NEW r \in Row, Claim(t, p, j, how, slot, r)
  PROVE  FiresTyped' /\ row' \in [Jobs -> Row] /\ replaced' \subseteq Fires
<1>1. row[j].claim \in Fires \union {None}
  BY DEF FileTyped, Row
<1>2. row' \in [Jobs -> Row]
  BY DEF Claim, FileTyped, Row
<1>3. r.kind \in Kinds
  BY DEF Row
<1>4. fire' \in [Fires -> Fire]
  BY <1>3, PhaseFacts DEF Claim, FiresTyped, Fire
<1>5. Made'
  BY DEF Claim, FiresTyped, Made, Fire
<1>6. replaced' \subseteq Fires
  BY <1>1 DEF Claim, RestTyped
<1> QED BY <1>2, <1>4, <1>5, <1>6 DEF FiresTyped

LEMMA ClaimForFireTyped ==
  ASSUME FileTyped, FiresTyped, RestTyped, NEW t \in Fires, NEW p \in Procs, NEW j \in Jobs,
         ClaimForFire(t, p, j)
  PROVE  FileTyped' /\ FiresTyped' /\ replaced' \subseteq Fires
<1>1. row[j] \in Row /\ row[j].at \in Nat /\ stamp + 1 \in Nat
  BY DEF FileTyped, Row
<1>2. [row[j] EXCEPT !.at = stamp + 1, !.due = FALSE] \in Row
  BY <1>1 DEF Row
<1>3. CASE row[j].kind = "every"
  BY <1>1, <1>2, <1>3, ClaimTyped DEF ClaimForFire, FileTyped
<1>4. CASE row[j].kind # "every"
  BY <1>1, <1>4, ClaimTyped DEF ClaimForFire, FileTyped
<1> QED BY <1>3, <1>4

LEMMA ClaimByHandTyped ==
  ASSUME FileTyped, FiresTyped, RestTyped, NEW t \in Fires, NEW p \in Procs, NEW j \in Jobs,
         ClaimForImmediateFire(t, p, j)
  PROVE  FileTyped' /\ FiresTyped' /\ replaced' \subseteq Fires
<1> DEFINE r == [row[j] EXCEPT !.on = TRUE, !.paused = FALSE]
           now == stamp + 1
<1>1. r \in Row
  BY EndedTyped DEF FileTyped
<1>2. now \in Nat /\ now + 1 \in Nat
  BY DEF FileTyped
<1> HIDE DEF r, now
<1>3. /\ [r EXCEPT !.at = now + 1, !.due = FALSE] \in Row
      /\ [r EXCEPT !.at = now, !.due = TRUE] \in Row
  BY <1>1, <1>2 DEF Row
<1>4. CASE row[j].kind = "every"
  <2>1. Claim(t, p, j, "hand", now, [r EXCEPT !.at = now + 1, !.due = FALSE]) /\ stamp' = now + 1
    BY <1>4 DEF ClaimForImmediateFire, r, now, FileTyped, Row
  <2> QED BY <2>1, <1>1, <1>2, <1>3, ClaimTyped DEF FileTyped
<1>5. CASE row[j].kind # "every"
  <2>1. Claim(t, p, j, "hand", now, [r EXCEPT !.at = now, !.due = TRUE]) /\ stamp' = now
    BY <1>5 DEF ClaimForImmediateFire, r, now, FileTyped, Row
  <2> QED BY <2>1, <1>1, <1>2, <1>3, ClaimTyped DEF FileTyped
<1> QED BY <1>4, <1>5

\* A step of the file alone.
LEMMA FileStepTyped ==
  ASSUME Typed, row' \in [Jobs -> Row], stamp' = stamp,
         UNCHANGED <<threads, proc, tick, command, history, plan>>,
         falls' \in Nat, acts' \in Nat, ills' \in Nat
  PROVE  Typed'
BY DEF Typed, FileTyped, FiresTyped, Made, ProcsTyped, CommandTyped, RestTyped, threads, history

LEMMA TimeTyped ==
  ASSUME Typed,
         \/ \E j \in Jobs : FallsDue(j) \/ LeaseExpires(j)
         \/ \E t \in Fires : Heartbeat(t)
  PROVE  Typed'
<1>1. \A j \in Jobs, b \in BOOLEAN :
        [row[j] EXCEPT !.due = b] \in Row /\ [row[j] EXCEPT !.late = b] \in Row
  BY DEF Typed, FileTyped, Row
<1>2. row \in [Jobs -> Row] /\ falls \in Nat /\ acts \in Nat /\ ills \in Nat
  BY DEF Typed, FileTyped, RestTyped
<1>3. ASSUME NEW j \in Jobs, FallsDue(j) PROVE Typed'
  <2>1. row' \in [Jobs -> Row]
    BY <1>1, <1>2, <1>3 DEF FallsDue
  <2> QED BY <1>2, <1>3, <2>1, FileStepTyped DEF FallsDue
<1>4. ASSUME NEW j \in Jobs, LeaseExpires(j) PROVE Typed'
  <2>1. row' \in [Jobs -> Row]
    BY <1>1, <1>2, <1>4 DEF LeaseExpires
  <2>2. ills' \in Nat
    BY <1>2, <1>4 DEF LeaseExpires, Ill
  <2> QED BY <1>2, <1>4, <2>1, <2>2, FileStepTyped DEF LeaseExpires
<1>5. ASSUME NEW t \in Fires, Heartbeat(t) PROVE Typed'
  <2>1. fire[t].job \in Jobs
    BY <1>5 DEF Heartbeat, Beating, Typed, FiresTyped, Made
  <2>2. row' \in [Jobs -> Row]
    BY <1>1, <1>2, <1>5, <2>1 DEF Heartbeat
  <2> QED BY <1>2, <1>5, <2>2, FileStepTyped DEF Heartbeat, bounds
<1> QED BY <1>3, <1>4, <1>5

\* A tick with something to do is a living process's.
LEMMA TickOwner ==
  ASSUME tick \in Tick, TickBook, tick.todo # {} \/ tick.won # {}
  PROVE  tick.by \in Procs /\ proc[tick.by]
<1>1. tick.by \in Procs \union {NoProc}
  BY DEF Tick
<1>2. tick.by # NoProc
  BY DEF TickBook, NoTick
<1> QED BY <1>1, <1>2 DEF TickBook

LEMMA AbandonTyped ==
  ASSUME tick \in Tick, NEW f \in [Fires -> Fire],
         \A u \in Fires : IF f[u].at # "none" THEN f[u].job \in Jobs /\ f[u].proc \in Procs
                         ELSE f[u].proc = NoProc,
         fire' = Abandon(f)
  PROVE  FiresTyped'
<1>1. \A u \in Fires : [f[u] EXCEPT !.at = "forsaken"] \in Fire
  BY PhaseFacts DEF Fire
<1>2. Abandon(f) \in [Fires -> Fire]
  BY <1>1 DEF Abandon
<1>3. Made'
  BY <1>1 DEF Abandon, Made, Fire
<1> QED BY <1>2, <1>3 DEF FiresTyped

LEMMA TickClaimsTyped ==
  ASSUME Typed, TickBook, NEW j \in Jobs, NEW at, TickClaims(j, at)
  PROVE  Typed'
<1>1. tick.by \in Procs
  BY TickOwner DEF TickClaims, Typed
<1>2. [tick EXCEPT !.todo = @ \ {<<j, at>>}] \in Tick
  BY DEF Typed, Tick
<1>3. ASSUME NEW t \in Fires
      PROVE  [[tick EXCEPT !.todo = @ \ {<<j, at>>}] EXCEPT !.won = @ \union {t}] \in Tick
  BY <1>2 DEF Tick
<1>4. FileTyped' /\ FiresTyped' /\ replaced' \subseteq Fires /\ tick' \in Tick
  <2>1. CASE j \notin running[tick.by] /\ Claimable(tick.by, j, at)
    <3>1. PICK t \in Fires :
            /\ ClaimForFire(t, tick.by, j)
            /\ tick' = [[tick EXCEPT !.todo = @ \ {<<j, at>>}] EXCEPT !.won = @ \union {t}]
      BY <2>1 DEF TickClaims
    <3> QED BY <3>1, <1>1, <1>3, ClaimForFireTyped DEF Typed
  <2>2. CASE ~(j \notin running[tick.by] /\ Claimable(tick.by, j, at))
    BY <2>2, <1>2 DEF TickClaims, Typed, FileTyped, FiresTyped, Made, RestTyped
  <2> QED BY <2>1, <2>2
<1>5. ProcsTyped' /\ CommandTyped'
  BY DEF TickClaims, bounds, Typed, ProcsTyped, CommandTyped
<1>6. RestTyped'
  BY <1>4 DEF TickClaims, bounds, Typed, RestTyped
<1> QED BY <1>4, <1>5, <1>6 DEF Typed

LEMMA TickSubmitsTyped ==
  ASSUME Typed, TickBook, NEW t \in Fires, TickSubmits(t)
  PROVE  Typed'
<1>1. fire[t].at = "won" /\ fire[t].job \in Jobs /\ t \in tick.won
  BY DEF TickSubmits, Submits, TickBook, Typed, FiresTyped, Made
<1>2. tick.by \in Procs
  BY <1>1, TickOwner DEF Typed
<1>3. tick' \in Tick
  <2> DEFINE rest == [tick EXCEPT !.won = @ \ {t}]
  <2>1. rest \in Tick
    BY DEF Typed, Tick
  <2>2. [rest EXCEPT !.mine = @ \union {t}] \in Tick /\ [rest EXCEPT !.mine = @] \in Tick
    BY <2>1 DEF Tick
  <2> HIDE DEF rest
  <2>3. \/ tick' = rest
        \/ tick' = [rest EXCEPT !.mine = @ \union {t}]
        \/ tick' = [rest EXCEPT !.mine = @]
    BY DEF TickSubmits, rest
  <2> QED BY <2>1, <2>2, <2>3
<1>4. FiresTyped'
  <2>1. fire' = [fire EXCEPT ![t].at = "released"] \/ fire' = [fire EXCEPT ![t].at = "queued"]
    BY DEF TickSubmits
  <2> QED BY <1>1, <2>1, AdvanceTyped, PhaseFacts DEF Typed, Advances
<1>5. row' \in [Jobs -> Row]
  <2>1. row' = ReleasedClaim(t) \/ row' = row
    BY DEF TickSubmits
  <2> QED BY <2>1, <1>1, ReleaseTyped DEF Typed, FileTyped
<1>6. running' \in [Procs -> SUBSET Jobs]
  BY <1>1, <1>2 DEF TickSubmits, Typed, ProcsTyped
<1> QED
  BY <1>3, <1>4, <1>5, <1>6 DEF TickSubmits, history, bounds, Typed, FileTyped, ProcsTyped,
    CommandTyped, RestTyped

LEMMA TickElseTyped ==
  ASSUME Typed, TickBook,
         \/ \E p \in Procs : TickStarts(p)
         \/ \E j \in Jobs, at \in 0 .. stamp : TickClaimFails(j, at)
         \/ \E t \in Fires : TickSubmitFails(t) \/ TickHeartbeatFails(t)
         \/ TickEnds
  PROVE  Typed'
<1> USE DEF Typed, threads, history, bounds
<1>1. NoTick \in Tick
  BY DEF NoTick, Tick
<1>2. CASE \E p \in Procs : TickStarts(p)
  <2>1. PICK p \in Procs : TickStarts(p)
    BY <1>2
  <2>2. PICK todo \in SUBSET (Jobs \X Nat) : tick' = [NoTick EXCEPT !.by = p, !.todo = todo]
    <3>1. \A j \in Jobs : row[j].at \in Nat
      BY DEF FileTyped, Row
    <3> DEFINE due == {j \in Jobs : Claimable(p, j, row[j].at)}
               todo == {<<j, row[j].at>> : j \in due}
    <3>2. todo \in SUBSET (Jobs \X Nat)
      BY <3>1
    <3>3. tick' = [NoTick EXCEPT !.by = p, !.todo = todo]
      BY <2>1 DEF TickStarts
    <3> QED BY <3>2, <3>3
  <2>3. tick' \in Tick
    BY <2>2 DEF NoTick, Tick
  <2> QED
    BY <2>1, <2>3 DEF TickStarts, FileTyped, FiresTyped, Made, ProcsTyped, CommandTyped, RestTyped
<1>3. CASE \E j \in Jobs, at \in 0 .. stamp : TickClaimFails(j, at)
  <2>1. ills' \in Nat
    BY <1>3 DEF TickClaimFails, Ill, RestTyped
  <2>2. FiresTyped'
    BY <1>3, AbandonTyped DEF TickClaimFails, FiresTyped, Made
  <2> QED
    BY <1>1, <1>3, <2>1, <2>2 DEF TickClaimFails, FileTyped, ProcsTyped, CommandTyped, RestTyped
<1>4. CASE \E t \in Fires : TickSubmitFails(t)
  <2>1. PICK t \in Fires : TickSubmitFails(t)
    BY <1>4
  <2>2. fire[t].at = "won" /\ fire[t].job \in Jobs
    BY <2>1 DEF TickSubmitFails, Submits, TickBook, FiresTyped, Made
  <2>3. [fire EXCEPT ![t].at = "released"] \in [Fires -> Fire]
    BY <2>2, PhaseFacts DEF FiresTyped, Fire
  <2>4. FiresTyped'
    BY <2>1, <2>2, <2>3, AbandonTyped, ZenonT(60) DEF TickSubmitFails, FiresTyped, Made, Fire
  <2>5. row' \in [Jobs -> Row]
    BY <2>1, <2>2, ReleaseTyped DEF TickSubmitFails
  <2>6. ills' \in Nat
    BY <2>1 DEF TickSubmitFails, Ill, RestTyped
  <2> QED
    BY <1>1, <2>1, <2>4, <2>5, <2>6 DEF TickSubmitFails, FileTyped, ProcsTyped, CommandTyped,
      RestTyped
<1>5. CASE TickEnds
  BY <1>1, <1>5 DEF TickEnds, FileTyped, FiresTyped, Made, ProcsTyped, CommandTyped, RestTyped
<1>6. CASE \E t \in Fires : TickHeartbeatFails(t)
  <2>1. PICK t \in Fires : TickHeartbeatFails(t)
    BY <1>6
  <2>2. fire[t].at = "won" /\ fire[t].job \in Jobs /\ tick.by \in Procs
    BY <2>1 DEF TickHeartbeatFails, Submits, TickBook, FiresTyped, Made, NoTick, Tick
  <2>3. [fire EXCEPT ![t].at = "forsaken"] \in [Fires -> Fire]
    BY <2>2, PhaseFacts DEF FiresTyped, Fire
  <2>4. FiresTyped'
    BY <2>1, <2>2, <2>3, AbandonTyped, ZenonT(60) DEF TickHeartbeatFails, FiresTyped, Made, Fire
  <2>5. running' \in [Procs -> SUBSET Jobs]
    BY <2>1, <2>2 DEF TickHeartbeatFails, ProcsTyped
  <2>6. ills' \in Nat
    BY <2>1 DEF TickHeartbeatFails, Ill, RestTyped
  <2> QED
    BY <1>1, <2>1, <2>4, <2>5, <2>6 DEF TickHeartbeatFails, FileTyped, ProcsTyped, CommandTyped,
      RestTyped
<1> QED BY <1>2, <1>3, <1>4, <1>5, <1>6

\* A step of one thread, in a phase between won and over.
LEMMA ThreadStepTyped ==
  ASSUME Typed, NEW t \in Fires, fire[t].at # "none", NEW at \in Phases \ {"none"},
         Advances(t, at),
         row' \in [Jobs -> Row], recorded' \subseteq Fires,
         running' \in [Procs -> SUBSET Jobs], cwd' \in [Procs -> Jobs \union {NoJob}],
         UNCHANGED <<proc, tick, command, stamp, replaced, plan, falls, acts>>, ills' \in Nat
  PROVE  Typed'
<1>1. FiresTyped'
  BY AdvanceTyped DEF Typed
<1> QED
  BY <1>1 DEF Typed, FileTyped, ProcsTyped, CommandTyped, RestTyped

LEMMA CwdRestoredTyped ==
  ASSUME Typed, NEW t \in Fires, fire[t].at # "none"
  PROVE  CwdRestored(t) \in [Procs -> Jobs \union {NoJob}]
<1>1. fire[t].was \in Jobs \union {NoJob}
  BY DEF Typed, FiresTyped, Fire
<1> QED BY <1>1 DEF CwdRestored, Typed, ProcsTyped

LEMMA LeftRunningTyped ==
  ASSUME Typed, NEW t \in Fires
  PROVE  LeftRunning(t) \in [Procs -> SUBSET Jobs]
BY DEF LeftRunning, Typed, ProcsTyped

LEMMA AsksTyped == ASSUME Typed, NEW t \in Fires, AsksForCwd(t) PROVE Typed'
<1>1. fire[t].at = "queued" /\ fire[t].proc \in Procs
  BY DEF AsksForCwd, Typed, FiresTyped, Made
<1>2. cwd[fire[t].proc] \in Jobs \union {NoJob}
  BY <1>1 DEF Typed, ProcsTyped
<1>3. fire' \in [Fires -> Fire]
  <2>1. ASSUME NEW c \in Jobs \union {NoJob}
        PROVE  [fire[t] EXCEPT !.at = "waiting", !.was = c] \in Fire
    BY PhaseFacts DEF Typed, FiresTyped, Fire
  <2>2. fire' = [fire EXCEPT ![t] = [fire[t] EXCEPT !.at = "waiting", !.was = cwd[fire[t].proc]]]
    BY DEF AsksForCwd, Typed, FiresTyped
  <2> QED BY <1>2, <2>1, <2>2 DEF Typed, FiresTyped
<1>4. FiresTyped'
  BY <1>1, <1>3 DEF AsksForCwd, Typed, FiresTyped, Made, Fire
<1> QED
  BY <1>4 DEF AsksForCwd, history, bounds, Typed, FileTyped, ProcsTyped, CommandTyped, RestTyped

LEMMA ThreadTyped ==
  ASSUME Typed, NEW t \in Fires, ThreadStep(t) \/ ThreadFails(t)
  PROVE  Typed'
<1>1. /\ row \in [Jobs -> Row] /\ recorded \subseteq Fires /\ ills \in Nat
      /\ running \in [Procs -> SUBSET Jobs] /\ cwd \in [Procs -> Jobs \union {NoJob}]
  BY DEF Typed, FileTyped, ProcsTyped, RestTyped
<1>2. fire[t].at # "none" => fire[t].job \in Jobs /\ fire[t].proc \in Procs
  BY DEF Typed, FiresTyped, Made
<1> USE PhaseFacts DEF history, bounds
<1>3. CASE RunStarts(t)
  <2>1. cwd' \in [Procs -> Jobs \union {NoJob}]
    BY <1>1, <1>2, <1>3 DEF RunStarts
  <2> QED BY <1>1, <1>3, <2>1, ThreadStepTyped DEF RunStarts
<1>4. CASE RunEnds(t)
  <2>1. fire[t].at # "none" /\ cwd' = CwdRestored(t) /\ ills' \in Nat
    BY <1>1, <1>4 DEF RunEnds, Ill
  <2>2. Advances(t, "ran") \/ Advances(t, "marking")
    BY <1>4 DEF RunEnds
  <2> QED BY <1>1, <1>4, <2>1, <2>2, CwdRestoredTyped, ThreadStepTyped DEF RunEnds
<1>5. CASE ChecksClaim(t)
  BY <1>1, <1>5, ThreadStepTyped DEF ChecksClaim
<1>6. CASE Marks(t)
  <2>1. Completed(row[fire[t].job]) \in Row
    BY <1>1, <1>2, <1>6, CompletedTyped DEF Marks
  <2>2. row' \in [Jobs -> Row] /\ recorded' \subseteq Fires
    BY <1>1, <1>6, <2>1 DEF Marks
  <2> QED BY <1>1, <1>6, <2>2, ThreadStepTyped DEF Marks
<1>7. CASE ThreadEnds(t)
  BY <1>1, <1>7, LeftRunningTyped, ThreadStepTyped DEF ThreadEnds
<1>8. CASE ThreadFails(t)
  <2>1. fire[t].at # "none" /\ ills' \in Nat /\ cwd' \in [Procs -> Jobs \union {NoJob}]
    BY <1>1, <1>8, CwdRestoredTyped DEF ThreadFails, Ill
  <2> QED BY <1>1, <1>8, <2>1, LeftRunningTyped, ThreadStepTyped DEF ThreadFails
<1> QED BY <1>3, <1>4, <1>5, <1>6, <1>7, <1>8, AsksTyped DEF ThreadStep

LEMMA CrashTyped == ASSUME Typed, NEW p \in Procs, Crash(p) PROVE Typed'
<1>1. \A t \in Fires : [fire[t] EXCEPT !.at = "dead"] \in Fire
  BY PhaseFacts DEF Typed, FiresTyped, Fire
<1>2. fire' \in [Fires -> Fire]
  BY <1>1 DEF Crash, Typed, FiresTyped
<1>3. Made'
  <2>1. ASSUME NEW t \in Fires, fire[t].at = "none" PROVE fire'[t] = fire[t]
    BY <2>1, CronAssumption DEF Crash, Typed, FiresTyped, Made
  <2>2. ASSUME NEW t \in Fires, fire[t].at # "none"
        PROVE  fire'[t].at # "none" /\ fire'[t].job = fire[t].job /\ fire'[t].proc = fire[t].proc
    BY <2>2 DEF Crash, Typed, FiresTyped, Fire
  <2> QED BY <2>1, <2>2 DEF Made, Typed, FiresTyped
<1>4. tick' \in Tick /\ ills' \in Nat
  BY DEF Crash, Typed, RestTyped, Tick, NoTick, Ill
<1>5. ProcsTyped'
  BY DEF Crash, Typed, ProcsTyped
<1> QED
  BY <1>2, <1>3, <1>4, <1>5 DEF Crash, history, Typed, FileTyped, FiresTyped, CommandTyped,
    RestTyped

LEMMA CommandStepTyped ==
  ASSUME Typed, CommandTyped', row' \in [Jobs -> Row], stamp' \in Nat, acts' \in Nat,
         UNCHANGED <<threads, proc, tick, history, plan, falls, ills>>
  PROVE  Typed'
BY DEF Typed, FileTyped, FiresTyped, Made, ProcsTyped, RestTyped, threads, history

LEMMA OperatorTyped == ASSUME Typed, OperatorStep PROVE Typed'
<1>1. /\ row \in [Jobs -> Row] /\ stamp \in Nat /\ stamp + 1 \in Nat /\ acts \in Nat
      /\ CommandTyped /\ (command' = command => CommandTyped')
      /\ \A op \in Ops : Command(op) => acts' \in Nat
  BY DEF Typed, FileTyped, RestTyped, CommandTyped, Command
<1> USE DEF Ops
<1>2. ASSUME NEW j \in Jobs, CreateJob(j) PROVE Typed'
  <2>1. ASSUME NEW n \in Nat
        PROVE  [row[j] EXCEPT !.here = "here", !.at = n, !.when = n] \in Row
    BY <1>1 DEF Row
  <2>2. row' = [row EXCEPT ![j] = [row[j] EXCEPT !.here = "here", !.at = stamp + 1,
                                                 !.when = stamp + 1]]
    BY <1>1, <1>2 DEF CreateJob
  <2> QED BY <1>1, <1>2, <2>1, <2>2, CommandStepTyped, ZenonT(60) DEF CreateJob
<1>3. ASSUME NEW j \in Jobs, PauseJob(j) PROVE Typed'
  <2>1. [row[j] EXCEPT !.on = FALSE, !.paused = TRUE] \in Row
    BY <1>1, ZenonT(60) DEF Row
  <2>2. row' = [row EXCEPT ![j] = [row[j] EXCEPT !.on = FALSE, !.paused = TRUE]]
    BY <1>1, <1>3 DEF PauseJob
  <2>3. row' \in [Jobs -> Row]
    BY <1>1, <2>1, <2>2
  <2> QED BY <1>1, <1>3, <2>3, CommandStepTyped DEF PauseJob
<1>4. ASSUME NEW j \in Jobs, RemoveJob(j) PROVE Typed'
  <2>1. row' \in [Jobs -> Row]
    BY <1>1, <1>4 DEF RemoveJob, Row
  <2> QED BY <1>1, <1>4, <2>1, CommandStepTyped DEF RemoveJob
<1>5. ASSUME NEW p \in Procs, NEW j \in Jobs, RunJobNow(p, j) PROVE Typed'
  <2>1. PICK t \in Fires : ClaimForImmediateFire(t, p, j)
    BY <1>5 DEF RunJobNow
  <2>2. FileTyped' /\ FiresTyped' /\ replaced' \subseteq Fires
    BY <2>1, ClaimByHandTyped DEF Typed
  <2> QED
    BY <1>1, <1>5, <2>2 DEF RunJobNow, Typed, ProcsTyped, CommandTyped, RestTyped
<1>6. ASSUME NEW j \in Jobs, ResumeReads(j) PROVE Typed'
  <2>1. ASSUME NEW at \in Nat, NEW due \in BOOLEAN
        PROVE  /\ [NoCommand EXCEPT !.op = "resume", !.job = j, !.at = at, !.due = due] \in Commands
               /\ [NoCommand EXCEPT !.op = "resume", !.job = j, !.at = at] \in Commands
    BY DEF NoCommand, Commands, Kinds
  <2>2. row[j].when \in Nat /\ row[j].due \in BOOLEAN
    BY <1>1 DEF Row
  <2>3. command' \in Commands /\ command'.job = j /\ stamp' \in Nat
    <3>1. CASE row[j].kind = "every"
      BY <1>1, <1>6, <2>1, <3>1 DEF ResumeReads, Reads, NoCommand
    <3>2. CASE row[j].kind # "every"
      <4>1. PICK due \in BOOLEAN :
              Reads([NoCommand EXCEPT !.op = "resume", !.job = j, !.at = row[j].when, !.due = due])
        BY <1>6, <2>2, <3>2 DEF ResumeReads
      <4> QED BY <1>1, <1>6, <2>1, <2>2, <3>2, <4>1 DEF ResumeReads, Reads, NoCommand
    <3> QED BY <3>1, <3>2
  <2> QED BY <1>1, <1>6, <2>3, CommandStepTyped DEF ResumeReads, CommandTyped
<1>7. ASSUME NEW j \in Jobs, NEW kind \in Kinds, EditReads(j, kind) PROVE Typed'
  <2>1. ASSUME NEW paused \in BOOLEAN
        PROVE  [NoCommand EXCEPT !.op = "edit", !.job = j, !.kind = kind, !.paused = paused]
                 \in Commands
    BY DEF NoCommand, Commands
  <2>2. row[j].paused \in BOOLEAN
    BY <1>1 DEF Row
  <2>3. command' \in Commands /\ command'.job = j
    <3>1. PICK paused \in BOOLEAN :
            Reads([NoCommand EXCEPT !.op = "edit", !.job = j, !.kind = kind, !.paused = paused])
      BY <1>7, <2>2 DEF EditReads
    <3> QED BY <2>1, <3>1 DEF Reads, NoCommand
  <2> QED BY <1>1, <1>7, <2>3, CommandStepTyped DEF EditReads, CommandTyped
<1>8. ASSUME NEW j \in Jobs, RepeatReads(j) PROVE Typed'
  <2>1. ASSUME NEW n \in Nat
        PROVE  [NoCommand EXCEPT !.op = "repeat", !.job = j, !.done = n] \in Commands
    BY DEF NoCommand, Commands, Kinds
  <2>2. row[j].done \in Nat
    BY <1>1 DEF Row
  <2>3. command' \in Commands /\ command'.job = j
    BY <1>8, <2>1, <2>2 DEF RepeatReads, Reads, NoCommand
  <2> QED BY <1>1, <1>8, <2>3, CommandStepTyped DEF RepeatReads, CommandTyped
<1>9. ASSUME NEW j \in Jobs, TriggerReads(j) PROVE Typed'
  <2>1. ASSUME NEW at \in Nat
        PROVE  [NoCommand EXCEPT !.op = "resume", !.job = j, !.at = at, !.due = TRUE] \in Commands
    BY DEF NoCommand, Commands, Kinds
  <2>2. command' \in Commands /\ command'.job = j /\ stamp' \in Nat
    BY <1>1, <1>9, <2>1 DEF TriggerReads, Reads, NoCommand
  <2> QED BY <1>1, <1>9, <2>2, CommandStepTyped DEF TriggerReads, CommandTyped
<1> QED BY <1>2, <1>3, <1>4, <1>5, <1>6, <1>7, <1>8, <1>9 DEF OperatorStep

LEMMA UpdateTyped == ASSUME Typed, UpdateJob PROVE Typed'
<1> DEFINE j == command.job
<1>1. row \in [Jobs -> Row] /\ stamp \in Nat /\ stamp + 1 \in Nat /\ acts \in Nat
  BY DEF Typed, FileTyped, RestTyped
<1>2. /\ j \in Jobs /\ row[j] \in Row /\ row[j].paused \in BOOLEAN /\ row[j].on \in BOOLEAN
      /\ command.kind \in Kinds /\ command.at \in Nat /\ command.due \in BOOLEAN
      /\ command.paused \in BOOLEAN /\ command.done \in Nat
  BY <1>1 DEF UpdateJob, Typed, CommandTyped, Commands, Row
<1>3. CommandTyped'
  BY DEF UpdateJob, CommandTyped, Commands, NoCommand, Kinds
<1> HIDE DEF j
<1>4. Resumed(row[j]) \in Row
  BY <1>2 DEF Resumed, Row
<1>5. Edited(row[j]) \in Row
  <2>1. ASSUME NEW n \in Nat, NEW on \in BOOLEAN, NEW paused \in BOOLEAN
        PROVE  /\ [row[j] EXCEPT !.kind = command.kind, !.when = n, !.on = on, !.paused = paused]
                    \in Row
               /\ \A r \in Row : [r EXCEPT !.at = n, !.due = FALSE] \in Row
    BY <1>2 DEF Row
  <2> DEFINE paused == command.paused /\ row[j].paused
             on == row[j].on \/ ~command.paused
             new == [row[j] EXCEPT !.kind = command.kind, !.when = stamp + 1,
                                   !.on = on, !.paused = paused]
  <2>2. paused \in BOOLEAN /\ on \in BOOLEAN
    BY <1>2
  <2>3. new \in Row
    <3> HIDE DEF on, paused
    <3> QED BY <1>1, <2>1, <2>2
  <2> HIDE DEF new
  <2>4. [new EXCEPT !.at = stamp + 1, !.due = FALSE] \in Row
    BY <1>1, <2>1, <2>3
  <2> QED BY <2>3, <2>4 DEF Edited, new
<1>6. ASSUME NEW n \in Nat PROVE [row[j] EXCEPT !.times = n, !.done = command.done] \in Row
  BY <1>2 DEF Row
<1>7. row' \in [Jobs -> Row] /\ stamp' \in Nat
  <2>1. CASE row[j].here # "here"
    BY <1>1, <2>1 DEF UpdateJob, j
  <2>2. CASE row[j].here = "here" /\ command.op = "resume"
    BY <1>1, <1>2, <1>4, <2>2 DEF UpdateJob, j
  <2>3. CASE row[j].here = "here" /\ command.op = "edit"
    BY <1>1, <1>2, <1>5, <2>3 DEF UpdateJob, j
  <2>4. CASE row[j].here = "here" /\ command.op = "repeat"
    <3>1. PICK n \in {0, 2} : row' = [row EXCEPT ![j].times = n, ![j].done = command.done]
      BY <2>4 DEF UpdateJob, j
    <3>2. row' = [row EXCEPT ![j] = [row[j] EXCEPT !.times = n, !.done = command.done]]
      BY <1>1, <1>2, <3>1
    <3>3. stamp' = stamp
      BY <2>4 DEF UpdateJob, j
    <3> QED BY <1>1, <1>2, <1>6, <3>2, <3>3
  <2> QED BY <2>1, <2>2, <2>3, <2>4 DEF UpdateJob, j
<1> QED BY <1>1, <1>3, <1>7, CommandStepTyped DEF UpdateJob, bounds

LEMMA StepTyped == ASSUME Typed, TickBook, CronNext PROVE Typed'
BY TimeTyped, ThreadTyped, TickElseTyped, TickClaimsTyped, TickSubmitsTyped, CrashTyped,
  OperatorTyped, UpdateTyped DEF CronNext, TickGoesOn

-----------------------------------------------------------------------------
(* Books.                                                                  *)

\* A step that makes no claim: it may withdraw one whose job is carried out no more, or record
\* the result of one that is withdrawn.
Calm ==
  /\ \A j \in Jobs :
       \/ row'[j].claim = row[j].claim
       \/ row'[j].claim = None /\ \A t \in Fires : row[j].claim = t => ~Executing(t)'
  /\ \A t \in Fires : fire[t].at # "none" =>
       fire'[t].at # "none" /\ fire'[t].job = fire[t].job /\ fire'[t].proc = fire[t].proc
  /\ \A t \in Fires : Executing(t)' => Executing(t) /\ proc'[fire[t].proc] = proc[fire[t].proc]
  /\ \A t \in recorded' \ recorded :
       /\ t \in Fires /\ fire[t].at # "none"
       /\ row[fire[t].job].claim = t /\ row'[fire[t].job].claim = None
  /\ plan' = plan /\ replaced' = replaced

LEMMA Ranges ==
  ASSUME Typed
  PROVE  /\ \A j \in Jobs : row[j].claim \in Fires \union {None}
         /\ \A t \in Fires : Executing(t) => fire[t].at # "none"
         /\ \A t \in Fires : fire[t].at # "none" => fire[t].job \in Jobs /\ fire[t].proc \in Procs
         /\ replaced \subseteq Fires /\ recorded \subseteq Fires
BY DEF Typed, FileTyped, Row, Executing, FiresTyped, Made, RestTyped

LEMMA CalmKeeps == ASSUME Typed, ClaimBooks, Calm PROVE ClaimBooks'
<1> USE Ranges, PhaseFacts
<1>1. ClaimBook'
  <2> SUFFICES ASSUME NEW j \in Jobs, row'[j].claim # None
               PROVE  fire'[row'[j].claim].job = j /\ fire'[row'[j].claim].at # "none"
    BY DEF ClaimBook
  <2>1. row'[j].claim = row[j].claim /\ row[j].claim \in Fires
    BY DEF Calm
  <2>2. fire[row[j].claim].job = j /\ fire[row[j].claim].at # "none"
    BY <2>1 DEF ClaimBooks, ClaimBook
  <2> QED BY <2>1, <2>2, ZenonT(60) DEF Calm
<1>2. AliveBook'
  BY DEF ClaimBooks, AliveBook, Calm
<1>3. HeldBook'
  <2> SUFFICES ASSUME plan.together, NEW t \in Fires, Executing(t)'
               PROVE  row'[fire'[t].job].claim = t
    BY DEF HeldBook, Calm
  <2>1. Executing(t) /\ fire[t].job \in Jobs /\ fire'[t].job = fire[t].job
    BY DEF Calm
  <2>2. row[fire[t].job].claim = t
    BY <2>1 DEF ClaimBooks, HeldBook
  <2> QED BY <2>1, <2>2 DEF Calm
<1>4. SilentBook'
  <2>1. ASSUME NEW t \in replaced \union recorded'
        PROVE  fire'[t].at # "none" /\ row'[fire'[t].job].claim # t
    <3>1. t \in Fires /\ fire[t].at # "none" /\ fire'[t].job = fire[t].job /\ fire[t].job \in Jobs
      BY DEF Calm, ClaimBooks, SilentBook
    <3> QED BY <3>1 DEF Calm, ClaimBooks, SilentBook
  <2>2. replaced \intersect recorded' = {}
    BY DEF Calm, ClaimBooks, SilentBook, StolenStaysSilent
  <2> QED BY <2>1, <2>2 DEF SilentBook, StolenStaysSilent, Calm
<1> QED BY <1>1, <1>2, <1>3, <1>4 DEF ClaimBooks

\* A new claim, by a process that lives, of a job whose claim it has not found active.
LEMMA ClaimKeeps ==
  ASSUME Typed, ClaimBooks, NEW t \in Fires, NEW p \in Procs, NEW j \in Jobs,
         NEW how \in {"tick", "hand"}, NEW slot, NEW r,
         Claim(t, p, j, how, slot, r), r \in Row, ~Active(p, row[j]), proc[p],
         plan' = plan, proc' = proc, recorded' = recorded
  PROVE  ClaimBooks'
<1> USE Ranges, PhaseFacts
<1>1. fire[t].at = "none"
  BY DEF Claim, Unused
<1>2. /\ fire'[t].job = j /\ fire'[t].proc = p /\ fire'[t].at # "none"
      /\ \A u \in Fires \ {t} : fire'[u] = fire[u]
  BY DEF Claim, Typed, FiresTyped
<1>3. row'[j].claim = t /\ \A k \in Jobs \ {j} : row'[k] = row[k]
  BY DEF Claim, Typed, FileTyped, Row
<1>4. \A k \in Jobs : row[k].claim # t
  BY <1>1 DEF ClaimBooks, ClaimBook
<1>5. plan.together => \A u \in Fires : Executing(u) => fire[u].job # j
  BY DEF ClaimBooks, HeldBook, AliveBook, Active, OwnerAlive
<1>6. \A u \in Fires \ {t} : Executing(u)' <=> Executing(u)
  BY <1>2 DEF Executing
<1>7. ClaimBook'
  <2> SUFFICES ASSUME NEW k \in Jobs, row'[k].claim # None
               PROVE  fire'[row'[k].claim].job = k /\ fire'[row'[k].claim].at # "none"
    BY DEF ClaimBook
  <2>1. CASE k = j
    BY <2>1, <1>2, <1>3
  <2>2. CASE k # j
    <3>1. row'[k].claim = row[k].claim /\ row[k].claim \in Fires \ {t}
      BY <2>2, <1>3, <1>4
    <3>2. fire'[row'[k].claim] = fire[row[k].claim]
      BY <3>1, <1>2
    <3>3. fire[row[k].claim].job = k /\ fire[row[k].claim].at # "none"
      BY <3>1 DEF ClaimBooks, ClaimBook
    <3> QED BY <3>2, <3>3
  <2> QED BY <2>1, <2>2
<1>8. AliveBook'
  BY <1>2, <1>6 DEF ClaimBooks, AliveBook
<1>9. HeldBook'
  BY <1>2, <1>3, <1>5, <1>6 DEF ClaimBooks, HeldBook
<1>10. SilentBook'
  <2> DEFINE old == {row[j].claim} \ {None}
  <2>1. \A u \in old : u \in Fires /\ fire[u].at # "none" /\ fire[u].job = j /\ u \notin recorded
    BY DEF ClaimBooks, ClaimBook, SilentBook
  <2>2. \A u \in replaced \union old \union recorded :
          u \in Fires \ {t} /\ fire[u].at # "none" /\ fire[u].job \in Jobs
    BY <1>1, <2>1 DEF ClaimBooks, SilentBook
  <2>3. ASSUME NEW u \in replaced \union old \union recorded
        PROVE  fire'[u].at # "none" /\ row'[fire'[u].job].claim # u
    <3>1. fire'[u] = fire[u] /\ u # t
      BY <1>2, <2>2
    <3>2. CASE fire[u].job = j
      BY <1>3, <2>2, <3>1, <3>2
    <3>3. CASE fire[u].job # j
      <4>1. row'[fire[u].job] = row[fire[u].job] /\ row[fire[u].job].claim # u
        BY <1>3, <2>1, <2>2, <3>3 DEF ClaimBooks, SilentBook
      <4> QED BY <2>2, <3>1, <4>1
    <3> QED BY <3>2, <3>3
  <2>4. replaced' = replaced \union old
    BY DEF Claim
  <2>5. (replaced \union old) \intersect recorded = {}
    BY <2>1 DEF ClaimBooks, SilentBook, StolenStaysSilent
  <2> QED BY <2>3, <2>4, <2>5 DEF SilentBook, StolenStaysSilent
<1> QED BY <1>7, <1>8, <1>9, <1>10 DEF ClaimBooks

LEMMA FileBooks ==
  ASSUME Typed, ClaimBooks, UNCHANGED <<fire, proc, recorded, replaced, plan>>,
         \A j \in Jobs : row'[j].claim = row[j].claim
  PROVE  ClaimBooks' /\ (TickBook /\ tick' = tick => TickBook')
<1>1. Calm
  BY Ranges DEF Calm, Executing
<1> QED BY <1>1, CalmKeeps DEF TickBook, NoTick

\* A step of one thread.
LEMMA ThreadBooks ==
  ASSUME Typed, TickBook, ClaimBooks, NEW t \in Fires, fire[t].at \notin {"none", "won"},
         fire' \in [Fires -> Fire], \A u \in Fires \ {t} : fire'[u] = fire[u],
         fire'[t].job = fire[t].job, fire'[t].proc = fire[t].proc, fire'[t].at # "none",
         Executing(t)' => Executing(t),
         UNCHANGED <<row, proc, tick, recorded, replaced, plan>>
  PROVE  TickBook' /\ ClaimBooks'
<1>1. \A u \in Fires : Executing(u)' => Executing(u)
  BY DEF Executing
<1>2. Calm
  BY <1>1, Ranges DEF Calm
<1>3. \A u \in tick.won : u # t /\ u \in Fires
  BY DEF TickBook, Typed, Tick
<1>4. TickBook'
  BY <1>3 DEF TickBook, NoTick
<1> QED BY <1>2, <1>4, CalmKeeps

LEMMA CompletedClaim == \A r \in Row : Completed(r).claim = None
<1> SUFFICES ASSUME NEW r \in Row PROVE Completed(r).claim = None
  OBVIOUS
<1> DEFINE done == [r EXCEPT !.claim = None, !.late = FALSE, !.ran = TRUE, !.done = @ + 1]
           next == IF r.kind = "every" THEN done ELSE [done EXCEPT !.at = 0, !.due = FALSE]
<1>1. r.done + 1 \in Nat
  BY DEF Row
<1>2. done \in Row /\ done.claim = None
  BY <1>1, MarkedTyped DEF Row
<1> HIDE DEF done
<1>3. \A q \in Row : /\ [q EXCEPT !.at = 0, !.due = FALSE].claim = q.claim
                     /\ [q EXCEPT !.here = "gone"].claim = q.claim
                     /\ \A on \in BOOLEAN : [q EXCEPT !.on = on, !.paused = FALSE].claim = q.claim
  BY DEF Row
<1>4. next \in Row /\ next.claim = None
  BY <1>2, <1>3, EndedTyped
<1> HIDE DEF next
<1>5. (r.kind = "every") \in BOOLEAN
  OBVIOUS
<1>6. [next EXCEPT !.on = (r.kind = "every"), !.paused = FALSE].claim = None
  BY <1>3, <1>4, <1>5
<1> QED BY <1>2, <1>3, <1>4, <1>6 DEF Completed, done, next

LEMMA TimeBooks ==
  ASSUME Typed, TickBook, ClaimBooks,
         \/ \E j \in Jobs : FallsDue(j) \/ LeaseExpires(j)
         \/ \E t \in Fires : Heartbeat(t)
  PROVE  TickBook' /\ ClaimBooks'
<1>1. \A j \in Jobs : row[j] \in Row
  BY DEF Typed, FileTyped
<1>2. row \in [Jobs -> Row]
  BY DEF Typed, FileTyped
<1>3. \A r \in Row, b \in BOOLEAN : /\ [r EXCEPT !.due = b].claim = r.claim
                                    /\ [r EXCEPT !.late = b].claim = r.claim
  BY DEF Row
<1>4. ASSUME NEW k \in Jobs PROVE row'[k].claim = row[k].claim
  <2>1. ASSUME NEW j \in Jobs, FallsDue(j) PROVE row'[k].claim = row[k].claim
    BY <1>1, <1>2, <1>3, <2>1 DEF FallsDue
  <2>2. ASSUME NEW j \in Jobs, LeaseExpires(j) PROVE row'[k].claim = row[k].claim
    BY <1>1, <1>2, <1>3, <2>2 DEF LeaseExpires
  <2>3. ASSUME NEW t \in Fires, Heartbeat(t) PROVE row'[k].claim = row[k].claim
    BY <1>1, <1>2, <1>3, <2>3 DEF Heartbeat
  <2> QED BY <2>1, <2>2, <2>3
<1>5. UNCHANGED <<fire, proc, tick, recorded, replaced, plan>>
  BY DEF FallsDue, LeaseExpires, Heartbeat, threads, history, bounds
<1> QED BY <1>4, <1>5, FileBooks

LEMMA ThreadStepBooks ==
  ASSUME Typed, TickBook, ClaimBooks, NEW t \in Fires, ThreadStep(t) \/ ThreadFails(t)
  PROVE  TickBook' /\ ClaimBooks'
<1>1. fire \in [Fires -> Fire] /\ fire' \in [Fires -> Fire]
  BY ThreadTyped DEF Typed, FiresTyped
<1>2. fire[t].at \in {"queued", "waiting", "running", "ran", "marking", "marked"}
  BY DEF ThreadStep, AsksForCwd, RunStarts, RunEnds, ChecksClaim, Marks, ThreadEnds, ThreadFails
<1>3. \A u \in Fires \ {t} : fire'[u] = fire[u]
  BY <1>1 DEF ThreadStep, AsksForCwd, RunStarts, RunEnds, ChecksClaim, Marks, ThreadEnds,
    ThreadFails, Advances
<1>4. fire'[t].job = fire[t].job /\ fire'[t].proc = fire[t].proc
  BY <1>1 DEF ThreadStep, AsksForCwd, RunStarts, RunEnds, ChecksClaim, Marks, ThreadEnds,
    ThreadFails, Advances, Fire
<1>5. fire'[t].at # "none" /\ (Executing(t)' => Executing(t))
  BY <1>1, <1>2 DEF ThreadStep, AsksForCwd, RunStarts, RunEnds, ChecksClaim, Marks, ThreadEnds,
    ThreadFails, Advances, Fire, Executing
<1>6. UNCHANGED <<proc, tick, replaced, plan>>
  BY DEF ThreadStep, AsksForCwd, RunStarts, RunEnds, ChecksClaim, Marks, ThreadEnds, ThreadFails,
    history, bounds
<1>7. CASE UNCHANGED <<row, recorded>>
  BY <1>1, <1>2, <1>3, <1>4, <1>5, <1>6, <1>7, ThreadBooks
<1>8. CASE ~UNCHANGED <<row, recorded>>
  <2>1. /\ fire[t].at = "marking" /\ Advances(t, "marked") /\ Current(t)
        /\ row' = [row EXCEPT ![fire[t].job] = Completed(row[fire[t].job])]
        /\ recorded' = recorded \union {t}
    BY <1>8 DEF ThreadStep, AsksForCwd, RunStarts, RunEnds, ChecksClaim, Marks, ThreadEnds,
      ThreadFails, history
  <2>2. fire[t].job \in Jobs /\ row \in [Jobs -> Row] /\ row[fire[t].job].claim = t
    BY <2>1, Ranges DEF Current, Typed, FileTyped
  <2>3. row'[fire[t].job].claim = None /\ \A j \in Jobs \ {fire[t].job} : row'[j] = row[j]
    BY <2>1, <2>2, CompletedClaim
  <2>4. ~Executing(t)'
    BY <1>1, <2>1 DEF Executing, Advances, Fire
  <2>5. \A u \in Fires : Executing(u)' => Executing(u)
    BY <1>3, <2>4 DEF Executing
  <2>6. Calm
    <3>1. \A u \in recorded' \ recorded : u = t
      BY <2>1
    <3>2. ASSUME NEW j \in Jobs
          PROVE  \/ row'[j].claim = row[j].claim
                 \/ /\ row'[j].claim = None
                    /\ \A u \in Fires : row[j].claim = u => ~Executing(u)'
      BY <2>2, <2>3, <2>4
    <3>3. \A u \in Fires : fire[u].at # "none" =>
            fire'[u].at # "none" /\ fire'[u].job = fire[u].job /\ fire'[u].proc = fire[u].proc
      BY <1>3, <1>4, <1>5
    <3>4. \A u \in recorded' \ recorded :
            /\ u \in Fires /\ fire[u].at # "none"
            /\ row[fire[u].job].claim = u /\ row'[fire[u].job].claim = None
      BY <1>2, <2>2, <2>3, <3>1
    <3> QED BY <1>6, <2>5, <3>2, <3>3, <3>4 DEF Calm
  <2>7. \A u \in tick.won : u # t /\ u \in Fires
    BY <1>2 DEF TickBook, Typed, Tick
  <2>8. TickBook'
    BY <1>3, <1>6, <2>7 DEF TickBook, NoTick
  <2> QED BY <2>6, <2>8, CalmKeeps
<1> QED BY <1>7, <1>8

LEMMA CrashBooks ==
  ASSUME Typed, TickBook, ClaimBooks, NEW p \in Procs, Crash(p)
  PROVE  TickBook' /\ ClaimBooks'
<1>1. /\ row' = row /\ plan' = plan /\ recorded' = recorded /\ replaced' = replaced
      /\ proc' = [proc EXCEPT ![p] = FALSE] /\ proc \in [Procs -> BOOLEAN]
      /\ tick' = IF tick.by = p THEN NoTick ELSE tick
  BY DEF Crash, history, Typed, ProcsTyped
<1>2. ASSUME NEW t \in Fires, fire[t].at # "none"
      PROVE  fire'[t].at # "none" /\ fire'[t].job = fire[t].job /\ fire'[t].proc = fire[t].proc
  BY <1>2 DEF Crash, Typed, FiresTyped, Fire
<1>3. ASSUME NEW t \in Fires, Executing(t)'
      PROVE  Executing(t) /\ proc'[fire[t].proc] = proc[fire[t].proc]
  <2>1. fire[t].proc # p
    BY <1>3 DEF Executing, Crash, Typed, FiresTyped, Fire
  <2>2. fire'[t] = fire[t]
    BY <2>1 DEF Crash
  <2>3. Executing(t)
    BY <1>3, <2>2 DEF Executing
  <2> QED BY <2>1, <2>3, <1>1, Ranges
<1>4. ClaimBooks'
  <2>1. Calm
    BY <1>1, <1>2, <1>3 DEF Calm
  <2> QED BY <2>1, CalmKeeps
<1>5. TickBook'
  <2>1. CASE tick.by = p
    BY <1>1, <2>1 DEF TickBook, NoTick
  <2>2. CASE tick.by # p
    <3>1. ASSUME NEW t \in tick.won PROVE fire'[t] = fire[t]
      BY <2>2 DEF TickBook, Crash, Typed, Tick
    <3> QED BY <1>1, <2>2, <3>1 DEF TickBook, NoTick, Typed, Tick
  <2> QED BY <2>1, <2>2
<1> QED BY <1>4, <1>5

\* A claim that fails, and a submission: the claim is withdrawn from the file, at most, and its
\* thread is left.
LEMMA ReleaseKeeps ==
  ASSUME Typed, ClaimBooks, NEW t \in Fires, fire[t].at = "won",
         row' = row \/ (row' = ReleasedClaim(t) /\ ~Executing(t)'),
         \A u \in Fires : fire[u].at # "none" =>
           fire'[u].at # "none" /\ fire'[u].job = fire[u].job /\ fire'[u].proc = fire[u].proc,
         \A u \in Fires : Executing(u)' => Executing(u),
         UNCHANGED <<proc, recorded, replaced, plan>>
  PROVE  ClaimBooks'
<1>1. \A j \in Jobs : \/ row'[j] = row[j]
                      \/ row'[j].claim = None /\ row[j].claim = t /\ ~Executing(t)'
  BY Ranges DEF ReleasedClaim, Typed, FileTyped, Row
<1>2. Calm
  BY <1>1 DEF Calm
<1> QED BY <1>2, CalmKeeps

LEMMA AbandonKeeps ==
  ASSUME NEW f \in [Fires -> Fire], fire' = Abandon(f), NEW u \in Fires
  PROVE  /\ fire'[u].job = f[u].job /\ fire'[u].proc = f[u].proc
         /\ f[u].at # "none" => fire'[u].at # "none"
         /\ Executing(u)' => fire'[u] = f[u]
BY DEF Abandon, Fire, Executing

LEMMA TickBooks ==
  ASSUME Typed, TickBook, ClaimBooks,
         \/ \E p \in Procs : TickStarts(p)
         \/ \E j \in Jobs, at \in 0 .. stamp : TickClaimFails(j, at)
         \/ \E t \in Fires : TickSubmitFails(t) \/ TickHeartbeatFails(t) \/ TickSubmits(t)
         \/ TickEnds
  PROVE  TickBook' /\ ClaimBooks'
<1> USE DEF history, bounds, threads
<1>1. fire \in [Fires -> Fire] /\ tick.won \subseteq Fires
  BY DEF Typed, FiresTyped, Tick
<1>2. ASSUME tick' = NoTick PROVE TickBook'
  BY <1>2 DEF TickBook, NoTick
<1>3. ASSUME NEW p \in Procs, TickStarts(p) PROVE TickBook' /\ ClaimBooks'
  <2>1. tick'.by = p /\ tick'.won = {} /\ proc'[p]
    BY <1>3, CronAssumption DEF TickStarts, NoTick
  <2>2. TickBook'
    BY <2>1, CronAssumption DEF TickBook
  <2> QED BY <1>3, <2>2, FileBooks DEF TickStarts
<1>4. ASSUME TickEnds PROVE TickBook' /\ ClaimBooks'
  BY <1>2, <1>4, FileBooks DEF TickEnds
<1>5. ASSUME NEW j \in Jobs, NEW at \in 0 .. stamp, TickClaimFails(j, at)
      PROVE  TickBook' /\ ClaimBooks'
  <2>1. \A u \in Fires : Executing(u)' => Executing(u)
    BY <1>1, <1>5, AbandonKeeps DEF TickClaimFails, Executing
  <2>2. Calm
    BY <1>1, <1>5, <2>1, AbandonKeeps DEF TickClaimFails, Calm
  <2> QED BY <1>2, <1>5, <2>2, CalmKeeps DEF TickClaimFails
<1>6. ASSUME NEW t \in Fires, TickSubmitFails(t) PROVE TickBook' /\ ClaimBooks'
  <2> DEFINE f == [fire EXCEPT ![t].at = "released"]
  <2>1. f \in [Fires -> Fire] /\ f[t].at = "released"
        /\ f[t].job = fire[t].job /\ f[t].proc = fire[t].proc
        /\ \A u \in Fires \ {t} : f[u] = fire[u]
    BY <1>1, PhaseFacts DEF Fire
  <2>2. fire' = Abandon(f) /\ row' = ReleasedClaim(t) /\ fire[t].at = "won"
    BY <1>6 DEF TickSubmitFails, Submits, TickBook
  <2> HIDE DEF f
  <2>3. \A u \in Fires : Executing(u)' => u # t /\ Executing(u)
    BY <2>1, <2>2, AbandonKeeps DEF Executing
  <2>4. \A u \in Fires : fire[u].at # "none" =>
          fire'[u].at # "none" /\ fire'[u].job = fire[u].job /\ fire'[u].proc = fire[u].proc
    BY <2>1, <2>2, AbandonKeeps
  <2> QED BY <1>2, <1>6, <2>2, <2>3, <2>4, ReleaseKeeps DEF TickSubmitFails
<1>7. ASSUME NEW t \in Fires, TickHeartbeatFails(t) PROVE TickBook' /\ ClaimBooks'
  <2> DEFINE f == [fire EXCEPT ![t].at = "forsaken"]
  <2>1. f \in [Fires -> Fire] /\ f[t].at = "forsaken"
        /\ f[t].job = fire[t].job /\ f[t].proc = fire[t].proc
        /\ \A u \in Fires \ {t} : f[u] = fire[u]
    BY <1>1, PhaseFacts DEF Fire
  <2>2. fire' = Abandon(f)
    BY <1>7 DEF TickHeartbeatFails
  <2> HIDE DEF f
  <2>3. \A u \in Fires : Executing(u)' => Executing(u)
    BY <2>1, <2>2, AbandonKeeps DEF Executing
  <2>4. Calm
    <3>1. UNCHANGED <<row, proc, plan, recorded, replaced>>
      BY <1>7 DEF TickHeartbeatFails
    <3>2. \A u \in Fires : fire[u].at # "none" =>
            fire'[u].at # "none" /\ fire'[u].job = fire[u].job /\ fire'[u].proc = fire[u].proc
      BY <2>1, <2>2, AbandonKeeps
    <3> QED BY <2>3, <3>1, <3>2 DEF Calm
  <2> QED BY <1>2, <1>7, <2>4, CalmKeeps DEF TickHeartbeatFails
<1>8. ASSUME NEW t \in Fires, TickSubmits(t) PROVE TickBook' /\ ClaimBooks'
  <2>1. fire[t].at = "won" /\ t \in tick.won
    BY <1>8 DEF TickSubmits, Submits, TickBook
  <2>2. tick.by # NoProc /\ proc' = proc
    <3>1. tick.by # NoProc
      BY <2>1 DEF TickBook, NoTick
    <3>2. proc' = proc
      BY <1>8 DEF TickSubmits
    <3> QED BY <3>1, <3>2
  <2>3. PICK at \in {"released", "queued"} :
          /\ fire' = [fire EXCEPT ![t].at = at]
          /\ \/ row' = row
             \/ row' = ReleasedClaim(t) /\ at = "released"
    BY <1>8 DEF TickSubmits
  <2>4. /\ fire'[t].at = at /\ fire'[t].job = fire[t].job /\ fire'[t].proc = fire[t].proc
        /\ \A u \in Fires \ {t} : fire'[u] = fire[u]
    BY <1>1, <2>3 DEF Fire
  <2>5. /\ \A u \in Fires : Executing(u)' => Executing(u)
        /\ at = "released" => ~Executing(t)'
    BY <2>1, <2>4 DEF Executing
  <2>6. ClaimBooks'
    BY <1>8, <2>1, <2>3, <2>4, <2>5, ReleaseKeeps, ZenonT(60) DEF TickSubmits
  <2>7. tick'.by = tick.by /\ tick'.won = tick.won \ {t}
    BY <1>8 DEF TickSubmits, Typed, Tick
  <2>8. TickBook'
    BY <1>1, <2>1, <2>2, <2>4, <2>7 DEF TickBook
  <2> QED BY <2>6, <2>8
<1> QED BY <1>3, <1>4, <1>5, <1>6, <1>7, <1>8

\* A claim of the tick, and one by hand.
LEMMA ClaimForFireKeeps ==
  ASSUME Typed, ClaimBooks, NEW t \in Fires, NEW p \in Procs, NEW j \in Jobs,
         ClaimForFire(t, p, j), ~Active(p, row[j]), proc[p],
         UNCHANGED <<plan, proc, recorded>>
  PROVE  ClaimBooks'
<1>1. row[j] \in Row /\ stamp + 1 \in Nat
  BY DEF Typed, FileTyped
<1>2. [row[j] EXCEPT !.at = stamp + 1, !.due = FALSE] \in Row
  BY <1>1 DEF Row
<1> QED BY <1>1, <1>2, ClaimKeeps DEF ClaimForFire

LEMMA ClaimByHandKeeps ==
  ASSUME Typed, ClaimBooks, NEW t \in Fires, NEW p \in Procs, NEW j \in Jobs,
         ClaimForImmediateFire(t, p, j), proc[p], UNCHANGED <<plan, proc, recorded>>
  PROVE  ClaimBooks'
<1> DEFINE r == [row[j] EXCEPT !.on = TRUE, !.paused = FALSE]
           now == stamp + 1
<1>1. r \in Row /\ now \in Nat /\ now + 1 \in Nat
  <2>1. row[j] \in Row /\ stamp \in Nat
    BY DEF Typed, FileTyped
  <2>2. r \in Row
    BY <2>1, EndedTyped
  <2>3. now \in Nat /\ now + 1 \in Nat
    BY <2>1
  <2> QED BY <2>2, <2>3
<1>2. ~Active(p, row[j])
  BY DEF ClaimForImmediateFire
<1>3. \/ Claim(t, p, j, "hand", now, [r EXCEPT !.at = now + 1, !.due = FALSE])
      \/ Claim(t, p, j, "hand", now, [r EXCEPT !.at = now, !.due = TRUE])
  BY DEF ClaimForImmediateFire
<1> HIDE DEF r, now
<1>4. /\ [r EXCEPT !.at = now + 1, !.due = FALSE] \in Row
      /\ [r EXCEPT !.at = now, !.due = TRUE] \in Row
  BY <1>1 DEF Row
<1> QED BY <1>2, <1>3, <1>4, ClaimKeeps

\* A new claim takes a fire that was not made.
LEMMA ClaimIsNew ==
  ASSUME Typed, NEW t \in Fires, NEW p, NEW j \in Jobs,
         ClaimForFire(t, p, j) \/ ClaimForImmediateFire(t, p, j)
  PROVE  /\ fire[t].at = "none" /\ fire'[t].proc = p
         /\ ClaimForFire(t, p, j) => fire'[t].at = "won"
         /\ \A u \in Fires \ {t} : fire'[u] = fire[u]
BY DEF ClaimForFire, ClaimForImmediateFire, Claim, Unused, Typed, FiresTyped

LEMMA TickClaimsBooks ==
  ASSUME Typed, TickBook, ClaimBooks, NEW j \in Jobs, NEW at, TickClaims(j, at)
  PROVE  TickBook' /\ ClaimBooks'
<1>1. tick.by \in Procs /\ proc[tick.by] /\ tick.won \subseteq Fires /\ tick.by # NoProc
  BY TickOwner, CronAssumption DEF TickClaims, Typed, Tick
<1>2. UNCHANGED <<proc, plan, recorded>>
  BY DEF TickClaims, bounds
<1>3. CASE j \notin running[tick.by] /\ Claimable(tick.by, j, at)
  <2>1. PICK t \in Fires :
          /\ ClaimForFire(t, tick.by, j)
          /\ tick' = [[tick EXCEPT !.todo = @ \ {<<j, at>>}] EXCEPT !.won = @ \union {t}]
    BY <1>3 DEF TickClaims
  <2>2. ClaimBooks'
    BY <1>1, <1>2, <1>3, <2>1, ClaimForFireKeeps DEF Claimable
  <2>3. tick'.by = tick.by /\ tick'.won = tick.won \union {t}
    BY <2>1 DEF Typed, Tick
  <2>4. TickBook'
    BY <1>1, <1>2, <2>1, <2>3, ClaimIsNew DEF TickBook
  <2> QED BY <2>2, <2>4
<1>4. CASE ~(j \notin running[tick.by] /\ Claimable(tick.by, j, at))
  <2>1. UNCHANGED <<row, fire, replaced>> /\ tick' = [tick EXCEPT !.todo = @ \ {<<j, at>>}]
    BY <1>4 DEF TickClaims
  <2>2. tick'.by = tick.by /\ tick'.won = tick.won
    BY <2>1 DEF Typed, Tick
  <2>3. TickBook'
    BY <1>1, <1>2, <2>1, <2>2 DEF TickBook
  <2> QED BY <1>2, <2>1, <2>3, FileBooks
<1> QED BY <1>3, <1>4

LEMMA CommandBooks ==
  ASSUME Typed, TickBook, ClaimBooks, OperatorStep \/ UpdateJob
  PROVE  TickBook' /\ ClaimBooks'
<1> USE DEF threads, history, bounds
<1>1. row \in [Jobs -> Row] /\ tick.won \subseteq Fires
  BY DEF Typed, FileTyped, Tick
<1>2. ASSUME NEW p \in Procs, NEW j \in Jobs, RunJobNow(p, j) PROVE TickBook' /\ ClaimBooks'
  <2>1. PICK t \in Fires : ClaimForImmediateFire(t, p, j)
    BY <1>2 DEF RunJobNow
  <2>2. proc[p] /\ UNCHANGED <<plan, proc, recorded, tick>>
    BY <1>2 DEF RunJobNow
  <2>3. ClaimBooks'
    BY <2>1, <2>2, ClaimByHandKeeps
  <2>4. TickBook'
    BY <1>1, <2>1, <2>2, ClaimIsNew DEF TickBook, NoTick
  <2> QED BY <2>3, <2>4
<1>3. ASSUME NEW j \in Jobs, CreateJob(j) \/ PauseJob(j) \/ RemoveJob(j)
      PROVE  TickBook' /\ ClaimBooks'
  <2>1. UNCHANGED <<fire, proc, recorded, replaced, plan, tick>>
    BY <1>3 DEF CreateJob, PauseJob, RemoveJob
  <2>2. /\ \A k \in Jobs \ {j} : row'[k] = row[k]
        /\ row'[j].claim = row[j].claim
    BY <1>1, <1>3 DEF CreateJob, PauseJob, RemoveJob, Row
  <2> QED BY <2>1, <2>2, FileBooks
<1>4. ASSUME NEW j \in Jobs,
             \/ ResumeReads(j) \/ TriggerReads(j) \/ RepeatReads(j)
             \/ \E kind \in Kinds : EditReads(j, kind)
      PROVE  TickBook' /\ ClaimBooks'
  BY <1>4, FileBooks DEF ResumeReads, TriggerReads, RepeatReads, EditReads
<1>5. ASSUME UpdateJob PROVE TickBook' /\ ClaimBooks'
  <2> DEFINE j == command.job
  <2>1. UNCHANGED <<fire, proc, recorded, replaced, plan, tick>>
    BY <1>5 DEF UpdateJob
  <2>2. j \in Jobs
    BY <1>5 DEF UpdateJob, Typed, CommandTyped
  <2>3. \/ row' = row
        \/ row' = [row EXCEPT ![j] = Resumed(row[j])]
        \/ row' = [row EXCEPT ![j] = Edited(row[j])]
        \/ \E n \in {0, 2} : row' = [row EXCEPT ![j].times = n, ![j].done = command.done]
    BY <1>1, <1>5 DEF UpdateJob
  <2>4. Resumed(row[j]).claim = row[j].claim
    BY <1>1, <2>2 DEF Resumed, Row
  <2>5. Edited(row[j]).claim = row[j].claim
    BY <1>1, <2>2 DEF Edited, Row
  <2>6. \A k \in Jobs : row'[k].claim = row[k].claim
    BY <1>1, <2>2, <2>3, <2>4, <2>5 DEF Row
  <2> QED BY <2>1, <2>6, FileBooks
<1> QED BY <1>2, <1>3, <1>4, <1>5 DEF OperatorStep

-----------------------------------------------------------------------------
(* Workdirs.                                                               *)

\* Nobody begins to work, and the workdir of a process stays where somebody works on.
WorkKept ==
  /\ plan' = plan
  /\ \A t \in Fires : fire'[t].at = "running" =>
       /\ fire[t].at = "running" /\ fire'[t].job = fire[t].job /\ fire'[t].proc = fire[t].proc
       /\ cwd'[fire[t].proc] = cwd[fire[t].proc]

LEMMA WorkKeeps == ASSUME CwdBook, WorkKept PROVE CwdBook'
BY DEF CwdBook, WorkdirIsOwn, WorkKept, Dir

\* What a step of a thread leaves of the fires.
LEMMA ThreadMoves ==
  ASSUME Typed, NEW t \in Fires, ThreadStep(t) \/ ThreadFails(t)
  PROVE  /\ fire[t].at \in {"queued", "waiting", "running", "ran", "marking", "marked"}
         /\ \A u \in Fires \ {t} : fire'[u] = fire[u]
         /\ fire'[t].job = fire[t].job /\ fire'[t].proc = fire[t].proc
         /\ fire'[t].slot = fire[t].slot /\ fire'[t].kind = fire[t].kind
         /\ fire'[t].at \notin {"none", "released"}
<1>1. fire \in [Fires -> Fire]
  BY DEF Typed, FiresTyped
<1>2. fire[t].at \in {"queued", "waiting", "running", "ran", "marking", "marked"}
  BY DEF ThreadStep, AsksForCwd, RunStarts, RunEnds, ChecksClaim, Marks, ThreadEnds, ThreadFails
<1>3. \/ \E at \in {"running", "ran", "marking", "marked", "over", "forsaken"} :
           fire' = [fire EXCEPT ![t].at = at]
      \/ fire' = [fire EXCEPT ![t].at = "waiting", ![t].was = cwd[fire[t].proc]]
  BY DEF ThreadStep, AsksForCwd, RunStarts, RunEnds, ChecksClaim, Marks, ThreadEnds, ThreadFails,
    Advances
<1>4. CASE \E at \in {"running", "ran", "marking", "marked", "over", "forsaken"} :
             fire' = [fire EXCEPT ![t].at = at]
  BY <1>1, <1>2, <1>4 DEF Fire
<1>5. CASE fire' = [fire EXCEPT ![t].at = "waiting", ![t].was = cwd[fire[t].proc]]
  BY <1>1, <1>2, <1>5 DEF Fire
<1> QED BY <1>3, <1>4, <1>5

\* A fire that is made, by the tick or by hand.
LEMMA ClaimMakes ==
  ASSUME Typed, NEW t \in Fires, NEW p, NEW j \in Jobs, NEW how \in {"tick", "hand"}, NEW slot,
         NEW r, Claim(t, p, j, how, slot, r)
  PROVE  /\ fire[t].at = "none" /\ fire'[t].at \in {"won", "queued"}
         /\ fire'[t].job = j /\ fire'[t].slot = slot /\ fire'[t].kind = r.kind
         /\ \A u \in Fires \ {t} : fire'[u] = fire[u]
         /\ \A u \in Fires : u < t => fire[u].at # "none"
BY DEF Claim, Unused, Typed, FiresTyped

LEMMA RunStartsCwd ==
  ASSUME Typed, CwdBook, NEW t \in Fires, RunStarts(t)
  PROVE  CwdBook'
<1> DEFINE p == fire[t].proc
<1>1. /\ \A u \in Fires \ {t} : fire'[u] = fire[u]
      /\ fire'[t].job = fire[t].job /\ fire'[t].proc = p
  BY ThreadMoves DEF ThreadStep
<1>2. fire[t].at = "waiting" /\ CwdFree(t) /\ plan' = plan
      /\ cwd' = IF Dir(t) THEN [cwd EXCEPT ![p] = fire[t].job] ELSE cwd
  BY DEF RunStarts, bounds
<1>3. p \in Procs /\ cwd \in [Procs -> Jobs \union {NoJob}]
  BY <1>2, Ranges DEF Typed, ProcsTyped
<1>4. \A u \in Fires : Dir(u)' = Dir(u)
  BY <1>1, <1>2 DEF Dir
<1>5. ASSUME NEW u \in Fires \ {t}, fire[u].at = "running", fire[u].proc = p
      PROVE  ~Dir(t) /\ ~Dir(u)
  BY <1>2, <1>5 DEF CwdFree, Beside
<1>6. ASSUME NEW u \in Fires, fire'[u].at = "running", Dir(u)
      PROVE  cwd'[fire'[u].proc] = fire'[u].job
  <2>1. CASE u = t
    BY <1>1, <1>2, <1>3, <1>6, <2>1
  <2>2. CASE u # t
    <3>1. fire[u].at = "running" /\ cwd[fire[u].proc] = fire[u].job /\ fire[u].proc \in Procs
      BY <1>1, <1>6, <2>2, Ranges DEF CwdBook, WorkdirIsOwn
    <3>2. fire[u].proc # p
      BY <1>5, <1>6, <2>2, <3>1
    <3> QED BY <1>1, <1>2, <1>3, <2>2, <3>1, <3>2
  <2> QED BY <2>1, <2>2
<1>7. ASSUME NEW u \in Fires, NEW v \in Fires, fire'[u].at = "running", fire'[v].at = "running",
             fire'[u].proc = fire'[v].proc, Dir(u)
      PROVE  u = v
  <2>1. CASE u # t /\ v # t
    BY <1>1, <1>7, <2>1 DEF CwdBook
  <2>2. CASE u = t /\ v # t
    BY <1>1, <1>5, <1>7, <2>2
  <2>3. CASE u # t /\ v = t
    BY <1>1, <1>5, <1>7, <2>3
  <2> QED BY <2>1, <2>2, <2>3
<1> QED BY <1>4, <1>6, <1>7 DEF CwdBook, WorkdirIsOwn

LEMMA ThreadCwd ==
  ASSUME Typed, CwdBook, NEW t \in Fires, ThreadStep(t) \/ ThreadFails(t)
  PROVE  CwdBook'
<1>1. CASE RunStarts(t)
  BY <1>1, RunStartsCwd
<1>2. CASE ~RunStarts(t)
  <2>1. plan' = plan
    BY DEF ThreadStep, AsksForCwd, RunStarts, RunEnds, ChecksClaim, Marks, ThreadEnds, ThreadFails,
      bounds
  <2>2. fire'[t].at # "running"
    BY <1>2 DEF ThreadStep, AsksForCwd, RunEnds, ChecksClaim, Marks, ThreadEnds, ThreadFails,
      Advances, Typed, FiresTyped, Fire
  <2>3. cwd' = cwd \/ (fire[t].at = "running" /\ cwd' = CwdRestored(t))
    BY <1>2 DEF ThreadStep, AsksForCwd, RunEnds, ChecksClaim, Marks, ThreadEnds, ThreadFails
  <2>4. ASSUME NEW u \in Fires \ {t}, fire[u].at = "running"
        PROVE  cwd'[fire[u].proc] = cwd[fire[u].proc]
    <3>1. CASE fire[t].at = "running" /\ Dir(t)
      <4>1. fire[u].proc # fire[t].proc
        BY <2>4, <3>1 DEF CwdBook
      <4>2. fire[u].proc \in Procs /\ cwd \in [Procs -> Jobs \union {NoJob}]
        BY <2>4, Ranges DEF Typed, ProcsTyped
      <4> QED BY <2>3, <4>1, <4>2 DEF CwdRestored
    <3>2. CASE ~(fire[t].at = "running" /\ Dir(t))
      BY <2>3, <3>2 DEF CwdRestored
    <3> QED BY <3>1, <3>2
  <2>5. WorkKept
    BY <2>1, <2>2, <2>4, ThreadMoves DEF WorkKept
  <2> QED BY <2>5, WorkKeeps
<1> QED BY <1>1, <1>2

LEMMA StepCwd == ASSUME Typed, TickBook, CwdBook, CronNext PROVE CwdBook'
<1>1. fire \in [Fires -> Fire]
  BY DEF Typed, FiresTyped
<1>2. ASSUME UNCHANGED <<fire, cwd, plan>> PROVE CwdBook'
  BY <1>2, WorkKeeps DEF WorkKept
<1> USE DEF threads, bounds
<1>3. CASE \/ \E j \in Jobs : FallsDue(j) \/ LeaseExpires(j)
           \/ \E t \in Fires : Heartbeat(t)
           \/ \E p \in Procs : TickStarts(p)
           \/ TickEnds \/ UpdateJob
  BY <1>2, <1>3 DEF FallsDue, LeaseExpires, Heartbeat, TickStarts, TickEnds, UpdateJob
<1>4. CASE \E t \in Fires : ThreadStep(t) \/ ThreadFails(t)
  BY <1>4, ThreadCwd
<1>5. ASSUME NEW t \in Fires, TickSubmits(t) \/ TickSubmitFails(t) \/ TickHeartbeatFails(t)
      PROVE  CwdBook'
  <2>1. plan' = plan /\ cwd' = cwd
    BY <1>5 DEF TickSubmits, TickSubmitFails, TickHeartbeatFails
  <2>2. CASE TickSubmits(t)
    <3>1. fire' = [fire EXCEPT ![t].at = "released"] \/ fire' = [fire EXCEPT ![t].at = "queued"]
      BY <2>2 DEF TickSubmits
    <3> QED BY <1>1, <2>1, <3>1, WorkKeeps DEF WorkKept, Fire
  <2>3. CASE TickSubmitFails(t)
    <3> DEFINE f == [fire EXCEPT ![t].at = "released"]
    <3>1. f \in [Fires -> Fire] /\ f[t].at = "released" /\ \A u \in Fires \ {t} : f[u] = fire[u]
      BY <1>1, PhaseFacts DEF Fire
    <3>2. fire' = Abandon(f)
      BY <2>3 DEF TickSubmitFails
    <3> HIDE DEF f
    <3> QED BY <2>1, <3>1, <3>2, WorkKeeps DEF WorkKept, Abandon, Fire
  <2>4. CASE TickHeartbeatFails(t)
    <3> DEFINE f == [fire EXCEPT ![t].at = "forsaken"]
    <3>1. f \in [Fires -> Fire] /\ f[t].at = "forsaken" /\ \A u \in Fires \ {t} : f[u] = fire[u]
      BY <1>1, PhaseFacts DEF Fire
    <3>2. fire' = Abandon(f)
      BY <2>4 DEF TickHeartbeatFails
    <3> HIDE DEF f
    <3> QED BY <2>1, <3>1, <3>2, WorkKeeps DEF WorkKept, Abandon, Fire
  <2> QED BY <1>5, <2>2, <2>3, <2>4
<1>6. ASSUME NEW j \in Jobs, NEW at, TickClaimFails(j, at) PROVE CwdBook'
  <2>1. plan' = plan /\ cwd' = cwd /\ fire' = Abandon(fire)
    BY <1>6 DEF TickClaimFails
  <2> QED BY <1>1, <2>1, WorkKeeps DEF WorkKept, Abandon, Fire
<1>7. ASSUME NEW j \in Jobs, NEW at, TickClaims(j, at) PROVE CwdBook'
  <2>1. plan' = plan /\ cwd' = cwd
    BY <1>7 DEF TickClaims
  <2>2. fire' = fire \/ \E t \in Fires : ClaimForFire(t, tick.by, j)
    BY <1>7 DEF TickClaims
  <2>3. ASSUME NEW t \in Fires, ClaimForFire(t, tick.by, j) PROVE CwdBook'
    BY <2>1, <2>3, ClaimIsNew, WorkKeeps DEF WorkKept
  <2> QED BY <1>2, <2>1, <2>2, <2>3
<1>8. ASSUME NEW p \in Procs, Crash(p) PROVE CwdBook'
  <2>1. ASSUME NEW t \in Fires, fire'[t].at = "running"
        PROVE  fire'[t] = fire[t] /\ fire[t].proc # p
    BY <1>1, <1>8, <2>1 DEF Crash, Fire
  <2>2. plan' = plan /\ cwd' = [cwd EXCEPT ![p] = NoJob]
    BY <1>8 DEF Crash
  <2>3. WorkKept
    BY <2>1, <2>2, Ranges DEF WorkKept, Typed, ProcsTyped
  <2> QED BY <2>3, WorkKeeps
<1>9. ASSUME OperatorStep PROVE CwdBook'
  <2>1. plan' = plan /\ cwd' = cwd
    BY <1>9 DEF OperatorStep, CreateJob, PauseJob, RemoveJob, ResumeReads, TriggerReads,
      RepeatReads, EditReads, RunJobNow
  <2>2. \/ fire' = fire
        \/ \E j \in Jobs, p \in Procs, t \in Fires : ClaimForImmediateFire(t, p, j)
    BY <1>9 DEF OperatorStep, CreateJob, PauseJob, RemoveJob, ResumeReads, TriggerReads,
      RepeatReads, EditReads, RunJobNow
  <2>3. ASSUME NEW j \in Jobs, NEW p \in Procs, NEW t \in Fires, ClaimForImmediateFire(t, p, j)
        PROVE  CwdBook'
    <3>1. PICK slot, r : Claim(t, p, j, "hand", slot, r)
      BY <2>3 DEF ClaimForImmediateFire
    <3> QED BY <2>1, <3>1, ClaimMakes, WorkKeeps DEF WorkKept
  <2> QED BY <1>2, <2>1, <2>2, <2>3
<1> QED BY <1>3, <1>4, <1>5, <1>6, <1>7, <1>8, <1>9 DEF CronNext, TickGoesOn

-----------------------------------------------------------------------------
(* One run for each time of the schedule.                                  *)

\* A one-shot whose result is recorded is not resumed: nobody resumes, or a one-shot is gone
\* with its first result.
DoneStaysDone ==
  \/ "resume" \notin plan.ops
  \/ /\ "edit" \notin plan.ops /\ "repeat" \notin plan.ops
     /\ \A j \in Jobs : plan.kind[j] = "once" => plan.times[j] = 1

\* A fire that has not given its claim back, and the slot it was made for.
Spends(t, j, slot) ==
  fire[t].at \notin {"none", "released"} /\ fire[t].job = j /\ fire[t].slot = slot

StampBook ==
  /\ \A j \in Jobs : row[j].at <= stamp /\ 0 < row[j].when /\ row[j].when <= stamp
  /\ \A t \in Fires : fire[t].slot <= stamp
  /\ command.at <= stamp

\* Fires are made in their order.
OrderBook == \A t, u \in Fires : t < u /\ fire[u].at # "none" => fire[t].at # "none"

\* A fire that was made holds its claim, has recorded its result or has lost its claim.
OwnerBook ==
  \A t \in Fires : fire[t].at \notin {"none", "released"} =>
    t \in replaced \/ t \in recorded \/ row[fire[t].job].claim = t

\* The next run of a job: no recorded fire was made for it, and none at all if the job recurs.
NextBook ==
  \A j \in Jobs : row[j].here = "here" =>
    /\ row[j].due => row[j].at # 0
    /\ ~row[j].paused /\ row[j].at # 0 =>
         \A t \in Fires : Spends(t, j, row[j].at) => row[j].kind = "once" /\ t \notin recorded

\* Where a one-shot may be resumed it has no result.
LimitBook ==
  "resume" \in plan.ops =>
    \A j \in Jobs :
      /\ row[j].kind = plan.kind[j] /\ row[j].times = plan.times[j]
      /\ row[j].here # "gone" /\ row[j].kind = "once" =>
           \A t \in Fires : fire[t].at \notin {"none", "released"} /\ fire[t].job = j
             => t \notin recorded

ReadBook == command.op \in {"edit", "repeat"} => command.op \in plan.ops

\* What is about to be written as the next run of a job.
ResumeBook ==
  command.op = "resume" =>
    /\ command.at # 0
    /\ \/ /\ row[command.job].at # command.at
          /\ \A t \in Fires : ~Spends(t, command.job, command.at)
       \/ "resume" \in plan.ops /\ row[command.job].kind = "once"

OnceBooks ==
  /\ StampBook /\ OrderBook /\ OwnerBook /\ NextBook /\ LimitBook /\ ReadBook /\ ResumeBook
  /\ FiredOnce

\* A step that makes no fire, records nothing and moves no job to another time.
FiresKept ==
  \A t \in Fires :
    /\ fire'[t].job = fire[t].job /\ fire'[t].slot = fire[t].slot /\ fire'[t].kind = fire[t].kind
    /\ fire'[t].at = "none" <=> fire[t].at = "none"
    /\ fire[t].at = "released" => fire'[t].at = "released"

ClaimsKept ==
  \A j \in Jobs : \/ row'[j].claim = row[j].claim
                  \/ \A t \in Fires : row[j].claim = t => fire'[t].at = "released"

TimeKept ==
  \A j \in Jobs :
    /\ row'[j].at = row[j].at /\ row'[j].when = row[j].when
    /\ row'[j].kind = row[j].kind /\ row'[j].times = row[j].times
    /\ row'[j].here \in {row[j].here, "gone"}
    /\ row[j].paused => row'[j].paused
    /\ row'[j].due => row[j].due \/ row[j].at # 0

LEMMA QuietKeeps ==
  ASSUME Typed, OnceBooks, FiresKept, ClaimsKept, TimeKept,
         UNCHANGED <<stamp, command, recorded, replaced, plan>>
  PROVE  OnceBooks'
<1>1. StampBook' /\ OrderBook'
  BY DEF OnceBooks, StampBook, OrderBook, FiresKept, TimeKept
<1>2. OwnerBook'
  <2> SUFFICES ASSUME NEW t \in Fires, fire'[t].at \notin {"none", "released"}
               PROVE  t \in replaced \/ t \in recorded \/ row'[fire'[t].job].claim = t
    BY DEF OwnerBook
  <2>1. fire[t].at \notin {"none", "released"} /\ fire'[t].job = fire[t].job
    BY DEF FiresKept
  <2>2. fire[t].job \in Jobs
    BY <2>1, Ranges
  <2> QED BY <2>1, <2>2 DEF OnceBooks, OwnerBook, ClaimsKept
<1>3. NextBook'
  BY DEF OnceBooks, NextBook, Spends, FiresKept, TimeKept
<1>4. LimitBook'
  BY DEF OnceBooks, LimitBook, FiresKept, TimeKept
<1>5. ResumeBook'
  BY DEF OnceBooks, ResumeBook, Spends, FiresKept, TimeKept, Typed, CommandTyped
<1>6. FiredOnce'
  BY DEF OnceBooks, FiredOnce, FiresKept
<1> QED BY <1>1, <1>2, <1>3, <1>4, <1>5, <1>6 DEF OnceBooks, ReadBook

\* A step that leaves the file as it is.
LEMMA FileKept ==
  ASSUME Typed, OnceBooks, FiresKept, UNCHANGED <<row, stamp, command, recorded, replaced, plan>>
  PROVE  OnceBooks'
BY QuietKeeps DEF ClaimsKept, TimeKept, Typed, FileTyped, Row

\* What mark_job_run() leaves of a row.
LEMMA CompletedFields ==
  ASSUME NEW r \in Row
  PROVE  LET q == Completed(r) IN
         /\ q \in Row /\ q.claim = None
         /\ q.kind = r.kind /\ q.times = r.times /\ q.when = r.when /\ q.at \in {0, r.at}
         /\ q.here \in {r.here, "gone"}
         /\ q.here # "gone" /\ r.kind = "once" => q.at = 0
         /\ q.due => r.due /\ q.at = r.at
         /\ r.paused => q.paused \/ q.at = 0
         /\ r.times = 1 => q.here = "gone"
<1> DEFINE done == [r EXCEPT !.claim = None, !.late = FALSE, !.ran = TRUE, !.done = @ + 1]
           next == IF r.kind = "every" THEN done ELSE [done EXCEPT !.at = 0, !.due = FALSE]
           ended == [next EXCEPT !.on = (r.kind = "every"), !.paused = FALSE]
           gone == [done EXCEPT !.here = "gone"]
<1>1. r.done \in Nat /\ r.done + 1 \in Nat /\ r.done + 1 >= 1
  BY DEF Row
<1>2. \A n \in Nat : LET q == [r EXCEPT !.claim = None, !.late = FALSE, !.ran = TRUE, !.done = n]
                     IN /\ q \in Row /\ q.claim = None /\ q.done = n
                        /\ q.kind = r.kind /\ q.times = r.times /\ q.when = r.when
                        /\ q.at = r.at /\ q.here = r.here /\ q.due = r.due /\ q.paused = r.paused
  BY MarkedTyped DEF Row
<1>3. /\ done \in Row /\ done.claim = None /\ done.done >= 1
      /\ done.kind = r.kind /\ done.times = r.times /\ done.when = r.when
      /\ done.at = r.at /\ done.here = r.here /\ done.due = r.due /\ done.paused = r.paused
  BY <1>1, <1>2
<1> HIDE DEF done
<1>4. \A q \in Row :
        /\ LET s == [q EXCEPT !.at = 0, !.due = FALSE]
           IN /\ s \in Row /\ s.claim = q.claim /\ s.kind = q.kind /\ s.times = q.times
              /\ s.when = q.when /\ s.at = 0 /\ s.here = q.here /\ ~s.due /\ s.paused = q.paused
        /\ LET s == [q EXCEPT !.here = "gone"]
           IN /\ s \in Row /\ s.claim = q.claim /\ s.kind = q.kind /\ s.times = q.times
              /\ s.when = q.when /\ s.at = q.at /\ s.here = "gone" /\ s.due = q.due
              /\ s.paused = q.paused
  <2> SUFFICES ASSUME NEW q \in Row
               PROVE  /\ LET s == [q EXCEPT !.at = 0, !.due = FALSE]
                         IN /\ s \in Row /\ s.claim = q.claim /\ s.kind = q.kind
                            /\ s.times = q.times /\ s.when = q.when /\ s.at = 0
                            /\ s.here = q.here /\ ~s.due /\ s.paused = q.paused
                      /\ LET s == [q EXCEPT !.here = "gone"]
                         IN /\ s \in Row /\ s.claim = q.claim /\ s.kind = q.kind
                            /\ s.times = q.times /\ s.when = q.when /\ s.at = q.at
                            /\ s.here = "gone" /\ s.due = q.due /\ s.paused = q.paused
    OBVIOUS
  <2>1. [q EXCEPT !.at = 0, !.due = FALSE] \in Row
    BY EndedTyped
  <2>2. [q EXCEPT !.here = "gone"] \in Row
    BY EndedTyped
  <2> QED BY <2>1, <2>2 DEF Row
<1>5. \A q \in Row, on \in BOOLEAN :
        LET s == [q EXCEPT !.on = on, !.paused = FALSE]
        IN /\ s \in Row /\ s.claim = q.claim /\ s.kind = q.kind /\ s.times = q.times
           /\ s.when = q.when /\ s.at = q.at /\ s.here = q.here /\ s.due = q.due
  <2> SUFFICES ASSUME NEW q \in Row, NEW on \in BOOLEAN
               PROVE  LET s == [q EXCEPT !.on = on, !.paused = FALSE]
                      IN /\ s \in Row /\ s.claim = q.claim /\ s.kind = q.kind
                         /\ s.times = q.times /\ s.when = q.when /\ s.at = q.at
                         /\ s.here = q.here /\ s.due = q.due
    OBVIOUS
  <2>1. [q EXCEPT !.on = on, !.paused = FALSE] \in Row
    BY EndedTyped
  <2> QED BY <2>1 DEF Row
<1>6. /\ next \in Row /\ next.claim = None
      /\ next.kind = r.kind /\ next.times = r.times /\ next.when = r.when
      /\ next.at = (IF r.kind = "every" THEN r.at ELSE 0)
      /\ next.here = r.here /\ (next.due => r.due /\ next.at = r.at) /\ next.paused = r.paused
  BY <1>3, <1>4, ZenonT(60)
<1>7. /\ gone \in Row /\ gone.claim = None /\ gone.here = "gone"
      /\ gone.kind = r.kind /\ gone.times = r.times /\ gone.when = r.when
      /\ gone.at = r.at /\ gone.due = r.due /\ gone.paused = r.paused
  BY <1>3, <1>4, ZenonT(60)
<1> HIDE DEF next, gone
<1>8. (r.kind = "every") \in BOOLEAN
  OBVIOUS
<1>9. /\ ended \in Row /\ ended.claim = None /\ ended.here = r.here
      /\ ended.kind = r.kind /\ ended.times = r.times /\ ended.when = r.when
      /\ ended.at = next.at /\ ended.due = next.due
  BY <1>5, <1>6, <1>8, ZenonT(60)
<1> HIDE DEF ended
<1>10. Completed(r) = IF r.times > 0 /\ done.done >= r.times THEN gone
                      ELSE IF next.at # 0 THEN next ELSE ended
  BY DEF Completed, done, next, gone, ended
<1>11. r.kind \in Kinds /\ r.times \in Nat
  BY DEF Row
<1>12. CASE r.times > 0 /\ done.done >= r.times
  BY <1>7, <1>10, <1>12
<1>13. CASE ~(r.times > 0 /\ done.done >= r.times) /\ next.at # 0
  BY <1>3, <1>6, <1>10, <1>11, <1>13
<1>14. CASE ~(r.times > 0 /\ done.done >= r.times) /\ next.at = 0
  BY <1>3, <1>6, <1>9, <1>10, <1>11, <1>14
<1> QED BY <1>12, <1>13, <1>14

\* The result of a fire is recorded.
LEMMA MarkKeeps ==
  ASSUME Typed, ClaimBooks, DoneStaysDone, OnceBooks, NEW t \in Fires, Marks(t), Current(t)
  PROVE  OnceBooks'
<1> DEFINE j == fire[t].job
<1>1. /\ fire[t].at = "marking" /\ j \in Jobs /\ row[j].claim = t /\ row[j].here = "here"
      /\ row' = [row EXCEPT ![j] = Completed(row[j])]
      /\ recorded' = recorded \union {t}
      /\ UNCHANGED <<stamp, command, replaced, plan>>
  BY Ranges DEF Marks, Current, bounds
<1>2. /\ row'[j] = Completed(row[j]) /\ \A k \in Jobs \ {j} : row'[k] = row[k]
      /\ row[j] \in Row /\ row[j].when \in Nat /\ row[j].at \in Nat /\ stamp \in Nat
  BY <1>1 DEF Typed, FileTyped, Row
<1>3. FiresKept
  BY ThreadMoves DEF FiresKept, ThreadStep
<1>4. t \notin replaced
  BY <1>1 DEF ClaimBooks, SilentBook
<1>5. /\ row'[j].kind = row[j].kind /\ row'[j].times = row[j].times
      /\ row'[j].when = row[j].when /\ row'[j].at \in {0, row[j].at}
      /\ row'[j].here # "gone" /\ row[j].kind = "once" => row'[j].at = 0
      /\ row'[j].due => row[j].due /\ row'[j].at = row[j].at
      /\ row[j].paused => row'[j].paused \/ row'[j].at = 0
      /\ row[j].times = 1 => row'[j].here = "gone"
  BY <1>2, CompletedFields
<1>6. StampBook' /\ OrderBook'
  <2>1. ASSUME NEW k \in Jobs PROVE row'[k].at <= stamp /\ 0 < row'[k].when /\ row'[k].when <= stamp
    <3>1. row[k].at <= stamp /\ 0 < row[k].when /\ row[k].when <= stamp
      BY DEF OnceBooks, StampBook
    <3> QED BY <3>1, <1>2, <1>5
  <2> QED BY <2>1, <1>1, <1>3 DEF OnceBooks, StampBook, OrderBook, FiresKept
<1> HIDE DEF j
<1>7. OwnerBook'
  <2> SUFFICES ASSUME NEW u \in Fires, fire'[u].at \notin {"none", "released"}
               PROVE  u \in replaced' \/ u \in recorded' \/ row'[fire'[u].job].claim = u
    BY DEF OwnerBook
  <2>1. fire[u].at \notin {"none", "released"} /\ fire'[u].job = fire[u].job
    BY <1>3 DEF FiresKept
  <2>2. fire[u].job \in Jobs
    BY <2>1, Ranges
  <2> QED BY <1>1, <1>2, <2>1, <2>2 DEF OnceBooks, OwnerBook
<1>8. NextBook'
  <2>1. ASSUME NEW k \in Jobs, row'[k].here = "here", row'[k].due PROVE row'[k].at # 0
    BY <1>1, <1>2, <1>5, <2>1 DEF OnceBooks, NextBook
  <2>2. ASSUME NEW k \in Jobs, row'[k].here = "here", ~row'[k].paused, row'[k].at # 0,
               NEW u \in Fires, fire'[u].at \notin {"none", "released"}, fire'[u].job = k,
               fire'[u].slot = row'[k].at
        PROVE  row'[k].kind = "once" /\ u \notin recorded'
    <3>1. fire[u].at \notin {"none", "released"} /\ fire[u].job = k /\ fire[u].slot = row'[k].at
      BY <2>2, <1>3 DEF FiresKept
    <3>2. CASE k # j
      <4>1. u # t /\ row'[k] = row[k]
        BY <1>2, <3>1, <3>2 DEF j
      <4>2. Spends(u, k, row[k].at)
        BY <3>1, <4>1 DEF Spends
      <4> QED BY <1>1, <2>2, <4>1, <4>2 DEF OnceBooks, NextBook
    <3>3. CASE k = j
      <4>1. row'[j].at = row[j].at /\ ~row[j].paused /\ row[j].kind # "once"
        BY <1>5, <2>2, <3>3
      <4>2. Spends(u, j, row[j].at)
        BY <3>1, <3>3, <4>1 DEF Spends
      <4> QED BY <1>1, <2>2, <3>3, <4>1, <4>2 DEF OnceBooks, NextBook
    <3> QED BY <3>2, <3>3
  <2> QED BY <2>1, <2>2 DEF NextBook, Spends
<1>9. LimitBook'
  <2> SUFFICES ASSUME "resume" \in plan.ops
               PROVE  LimitBook'
    BY <1>1 DEF LimitBook
  <2>1. \A k \in Jobs : row'[k].kind = plan.kind[k] /\ row'[k].times = plan.times[k]
    BY <1>2, <1>5 DEF OnceBooks, LimitBook
  <2>2. ASSUME NEW k \in Jobs, row'[k].here # "gone", row'[k].kind = "once",
               NEW u \in Fires, fire'[u].at \notin {"none", "released"}, fire'[u].job = k
        PROVE  u \notin recorded'
    <3>1. k # j
      BY <1>5, <2>1, <2>2 DEF DoneStaysDone, OnceBooks, LimitBook
    <3>2. fire[u].at \notin {"none", "released"} /\ fire[u].job = k /\ u # t
      BY <2>2, <1>3, <3>1 DEF FiresKept, j
    <3> QED BY <1>1, <1>2, <2>2, <3>1, <3>2 DEF OnceBooks, LimitBook
  <2> QED BY <1>1, <2>1, <2>2 DEF LimitBook
<1>10. ResumeBook'
  <2> SUFFICES ASSUME command.op = "resume" PROVE ResumeBook'
    BY <1>1 DEF ResumeBook
  <2>1. command.job \in Jobs
    BY DEF Typed, CommandTyped
  <2>2. row'[command.job].kind = row[command.job].kind
        /\ row'[command.job].at \in {0, row[command.job].at}
    BY <1>2, <1>5, <2>1
  <2>3. ASSUME NEW u \in Fires, Spends(u, command.job, command.at)'
        PROVE  Spends(u, command.job, command.at)
    BY <1>1, <1>3, <2>3 DEF FiresKept, Spends
  <2> QED BY <1>1, <2>2, <2>3 DEF OnceBooks, ResumeBook
<1>11. FiredOnce'
  BY <1>1, <1>3, <1>4 DEF OnceBooks, FiredOnce, FiresKept
<1> QED BY <1>1, <1>6, <1>7, <1>8, <1>9, <1>10, <1>11 DEF OnceBooks, ReadBook

\* A new claim of a job: for its next run, or for a time of its own.
LEMMA ClaimOnce ==
  ASSUME Typed, ClaimBooks, OnceBooks, NEW t \in Fires, NEW p \in Procs, NEW j \in Jobs,
         NEW how \in {"tick", "hand"}, NEW slot \in Nat, NEW r \in Row,
         Claim(t, p, j, how, slot, r), row[j].here = "here",
         r.here = "here", r.kind = row[j].kind, r.times = row[j].times, r.when = row[j].when,
         stamp' \in Nat, stamp <= stamp', 0 < r.at, r.at <= stamp',
         \/ stamp < slot /\ slot <= stamp'
         \/ slot = row[j].at /\ slot # 0 /\ ~row[j].paused,
         (stamp < r.at /\ r.at # slot) \/ (r.kind = "once" /\ r.at = slot),
         UNCHANGED <<command, recorded, plan>>
  PROVE  OnceBooks'
<1>1. /\ fire[t].at = "none" /\ fire'[t].at \in {"won", "queued"}
      /\ fire'[t].job = j /\ fire'[t].slot = slot /\ fire'[t].kind = r.kind
      /\ \A u \in Fires \ {t} : fire'[u] = fire[u]
      /\ \A u \in Fires : u < t => fire[u].at # "none"
  BY DEF Claim, Unused, Typed, FiresTyped
<1>2. /\ row'[j] = [r EXCEPT !.claim = t, !.late = FALSE]
      /\ \A k \in Jobs \ {j} : row'[k] = row[k]
      /\ replaced' = replaced \union ({row[j].claim} \ {None})
  BY DEF Claim, Typed, FileTyped
<1>3. /\ row'[j].here = "here" /\ row'[j].kind = row[j].kind /\ row'[j].times = row[j].times
      /\ row'[j].when = row[j].when /\ row'[j].at = r.at /\ row'[j].claim = t
  BY <1>2 DEF Row
<1>4. t \notin recorded
  BY <1>1 DEF ClaimBooks, SilentBook
<1>5. /\ stamp \in Nat /\ \A k \in Jobs : row[k].at \in Nat /\ row[k].when \in Nat
      /\ \A u \in Fires : fire[u].slot \in Nat /\ command.at \in Nat
      /\ command.op # "none" => command.job \in Jobs
  BY DEF Typed, FileTyped, Row, FiresTyped, Fire, CommandTyped, Commands
<1>6. ASSUME NEW u \in Fires, Spends(u, j, slot)
      PROVE  row[j].kind = "once" /\ u \notin recorded /\ slot = row[j].at
  <2>1. slot <= stamp
    BY <1>6 DEF Spends, OnceBooks, StampBook
  <2>2. slot = row[j].at /\ slot # 0 /\ ~row[j].paused
    BY <2>1, <1>5
  <2> QED BY <1>6, <2>2 DEF OnceBooks, NextBook
<1>7. StampBook'
  <2>1. ASSUME NEW k \in Jobs
        PROVE  row'[k].at <= stamp' /\ 0 < row'[k].when /\ row'[k].when <= stamp'
    <3>1. row[k].at <= stamp /\ 0 < row[k].when /\ row[k].when <= stamp
      BY DEF OnceBooks, StampBook
    <3>2. CASE k = j
      BY <1>3, <1>5, <3>1, <3>2
    <3>3. CASE k # j
      BY <1>2, <1>5, <3>1, <3>3
    <3> QED BY <3>2, <3>3
  <2>2. ASSUME NEW u \in Fires PROVE fire'[u].slot <= stamp'
    <3>1. fire[u].slot <= stamp /\ row[j].at <= stamp
      BY DEF OnceBooks, StampBook
    <3> QED BY <1>1, <1>5, <3>1
  <2>3. command'.at <= stamp'
    BY <1>5 DEF OnceBooks, StampBook
  <2> QED BY <2>1, <2>2, <2>3 DEF StampBook
<1>8. OrderBook'
  BY <1>1 DEF OnceBooks, OrderBook
<1>9. OwnerBook'
  <2> SUFFICES ASSUME NEW u \in Fires, fire'[u].at \notin {"none", "released"}
               PROVE  u \in replaced' \/ u \in recorded \/ row'[fire'[u].job].claim = u
    BY DEF OwnerBook
  <2>1. CASE u = t
    BY <1>1, <1>3, <2>1
  <2>2. CASE u # t
    <3>1. fire'[u] = fire[u] /\ fire[u].job \in Jobs
      BY <1>1, <2>2, Ranges
    <3>2. u \in replaced \/ u \in recorded \/ row[fire[u].job].claim = u
      BY <3>1 DEF OnceBooks, OwnerBook
    <3> QED BY <1>2, <3>1, <3>2, PhaseFacts
  <2> QED BY <2>1, <2>2
<1>10. NextBook'
  <2>1. ASSUME NEW k \in Jobs, row'[k].here = "here", row'[k].due PROVE row'[k].at # 0
    <3>1. CASE k = j
      BY <1>3, <3>1
    <3>2. CASE k # j
      BY <1>2, <2>1, <3>2 DEF OnceBooks, NextBook
    <3> QED BY <3>1, <3>2
  <2>2. ASSUME NEW k \in Jobs, row'[k].here = "here", ~row'[k].paused, row'[k].at # 0,
               NEW u \in Fires, fire'[u].at \notin {"none", "released"}, fire'[u].job = k,
               fire'[u].slot = row'[k].at
        PROVE  row'[k].kind = "once" /\ u \notin recorded
    <3>1. CASE k # j
      <4>1. u # t /\ row'[k] = row[k] /\ fire'[u] = fire[u]
        BY <1>1, <1>2, <2>2, <3>1
      <4>2. Spends(u, k, row[k].at)
        BY <2>2, <4>1 DEF Spends
      <4> QED BY <2>2, <4>1, <4>2 DEF OnceBooks, NextBook
    <3>2. CASE k = j /\ u = t
      BY <1>1, <1>3, <1>4, <2>2, <3>2
    <3>3. CASE k = j /\ u # t
      <4>1. fire'[u] = fire[u] /\ fire[u].slot = r.at /\ fire[u].slot <= stamp
        BY <1>1, <1>3, <2>2, <3>3 DEF OnceBooks, StampBook
      <4>2. r.at = slot
        BY <1>5, <4>1
      <4>3. Spends(u, j, slot)
        BY <2>2, <3>3, <4>1, <4>2 DEF Spends
      <4> QED BY <1>3, <1>6, <3>3, <4>3
    <3> QED BY <3>1, <3>2, <3>3
  <2> QED BY <2>1, <2>2 DEF NextBook, Spends
<1>11. LimitBook'
  <2>1. ASSUME "resume" \in plan.ops, NEW k \in Jobs
        PROVE  row'[k].kind = plan.kind[k] /\ row'[k].times = plan.times[k]
    <3>1. row'[k].kind = row[k].kind /\ row'[k].times = row[k].times
      BY <1>2, <1>3
    <3> QED BY <2>1, <3>1 DEF OnceBooks, LimitBook
  <2>2. ASSUME "resume" \in plan.ops, NEW k \in Jobs, row'[k].here # "gone",
               row'[k].kind = "once",
               NEW u \in Fires, fire'[u].at \notin {"none", "released"}, fire'[u].job = k
        PROVE  u \notin recorded
    <3>1. row[k].here # "gone" /\ row[k].kind = "once"
      <4>1. CASE k = j
        BY <1>3, <2>2, <4>1
      <4>2. CASE k # j
        BY <1>2, <2>2, <4>2
      <4> QED BY <4>1, <4>2
    <3> QED BY <1>1, <1>4, <2>2, <3>1 DEF OnceBooks, LimitBook
  <2> QED BY <2>1, <2>2 DEF LimitBook
<1>12. ResumeBook'
  <2> SUFFICES ASSUME command.op = "resume" PROVE ResumeBook'
    BY DEF ResumeBook
  <2> DEFINE c == command.job
  <2>1. c \in Jobs /\ command.at # 0 /\ command.at <= stamp
    BY <1>5 DEF OnceBooks, ResumeBook, StampBook
  <2>2. row'[c].kind = row[c].kind
    BY <1>2, <1>3, <2>1
  <2>3. ASSUME row[c].at # command.at, \A u \in Fires : ~Spends(u, c, command.at)
        PROVE  row'[c].at # command.at /\ \A u \in Fires : ~Spends(u, c, command.at)'
    <3>1. c = j => slot # command.at
      BY <1>5, <2>1, <2>3
    <3>2. row'[c].at # command.at
      <4>1. CASE c = j
        BY <1>3, <1>5, <2>1, <3>1, <4>1
      <4>2. CASE c # j
        BY <1>2, <2>1, <2>3, <4>2
      <4> QED BY <4>1, <4>2
    <3>3. ASSUME NEW u \in Fires, Spends(u, c, command.at)' PROVE FALSE
      BY <1>1, <2>3, <3>1, <3>3 DEF Spends
    <3> QED BY <3>2, <3>3
  <2> QED BY <2>1, <2>2, <2>3 DEF OnceBooks, ResumeBook
<1>13. FiredOnce'
  <2> SUFFICES ASSUME NEW u \in Fires, NEW v \in Fires, u < v, fire'[v].at # "none",
                      fire'[u].at # "released", fire'[u].job = fire'[v].job,
                      fire'[u].slot = fire'[v].slot
               PROVE  u \in replaced' /\ u \notin recorded /\ fire'[v].kind = "once"
    BY DEF FiredOnce
  <2>1. CASE u # t /\ v # t
    BY <1>1, <1>2, <2>1 DEF OnceBooks, FiredOnce
  <2>2. CASE u = t
    BY <1>1, <2>2, PhaseFacts DEF OnceBooks, OrderBook
  <2>3. CASE v = t /\ u # t
    <3>1. fire'[u] = fire[u] /\ fire[u].at \notin {"none", "released"}
      BY <1>1, <2>3
    <3>2. Spends(u, j, slot)
      BY <1>1, <2>3, <3>1 DEF Spends
    <3>3. u \in replaced \/ row[j].claim = u
      BY <1>1, <1>6, <2>3, <3>1, <3>2 DEF OnceBooks, OwnerBook
    <3> QED BY <1>1, <1>2, <1>6, <2>3, <3>2, <3>3, PhaseFacts
  <2> QED BY <2>1, <2>2, <2>3
<1> QED BY <1>7, <1>8, <1>9, <1>10, <1>11, <1>12, <1>13 DEF OnceBooks, ReadBook

\* A job that is written by a command, at a time of its own or at none.
LEMMA RowWritten ==
  ASSUME Typed, OnceBooks, NEW j \in Jobs, NEW r \in Row, row' = [row EXCEPT ![j] = r],
         UNCHANGED <<fire, recorded, replaced, plan>>,
         r.claim = row[j].claim, r.due => r.at # 0,
         stamp' \in Nat, stamp <= stamp', r.at <= stamp', 0 < r.when, r.when <= stamp',
         r.here = "here" /\ ~r.paused /\ r.at # 0 =>
           \A t \in Fires : Spends(t, j, r.at) => r.kind = "once" /\ t \notin recorded,
         "resume" \in plan.ops =>
           /\ r.kind = row[j].kind /\ r.times = row[j].times
           /\ r.here = "gone" \/ row[j].here # "gone",
         command' = NoCommand \/ (command' = command /\ r.kind = row[j].kind /\ stamp < r.at)
  PROVE  OnceBooks'
<1>1. /\ row'[j] = r /\ \A k \in Jobs \ {j} : row'[k] = row[k]
      /\ row[j] \in Row /\ stamp \in Nat /\ command.at \in Nat
      /\ \A k \in Jobs : row[k].at \in Nat /\ row[k].when \in Nat
      /\ \A t \in Fires : fire[t].slot \in Nat
      /\ command.op # "none" => command.job \in Jobs
  BY DEF Typed, FileTyped, Row, FiresTyped, Fire, CommandTyped, Commands
<1>2. \A t \in Fires : \A k, s : Spends(t, k, s)' <=> Spends(t, k, s)
  BY DEF Spends
<1>3. StampBook'
  <2>1. ASSUME NEW k \in Jobs
        PROVE  row'[k].at <= stamp' /\ 0 < row'[k].when /\ row'[k].when <= stamp'
    <3>1. row[k].at <= stamp /\ 0 < row[k].when /\ row[k].when <= stamp
      BY DEF OnceBooks, StampBook
    <3>2. CASE k = j
      BY <1>1, <3>2
    <3>3. CASE k # j
      BY <1>1, <3>1, <3>3
    <3> QED BY <3>2, <3>3
  <2>2. ASSUME NEW t \in Fires PROVE fire'[t].slot <= stamp'
    <3>1. fire[t].slot <= stamp
      BY DEF OnceBooks, StampBook
    <3> QED BY <1>1, <3>1
  <2>3. command'.at <= stamp'
    <3>1. command.at <= stamp
      BY DEF OnceBooks, StampBook
    <3> QED BY <1>1, <3>1 DEF NoCommand
  <2> QED BY <2>1, <2>2, <2>3 DEF StampBook
<1>4. OrderBook' /\ FiredOnce'
  BY DEF OnceBooks, OrderBook, FiredOnce
<1>5. OwnerBook'
  <2>1. \A k \in Jobs : row'[k].claim = row[k].claim
    BY <1>1
  <2>2. \A t \in Fires : fire[t].at # "none" => fire[t].job \in Jobs
    BY Ranges
  <2> QED BY <2>1, <2>2 DEF OnceBooks, OwnerBook
<1>6. NextBook'
  <2> SUFFICES ASSUME NEW k \in Jobs, row'[k].here = "here"
               PROVE  /\ row'[k].due => row'[k].at # 0
                      /\ ~row'[k].paused /\ row'[k].at # 0 =>
                           \A t \in Fires : Spends(t, k, row'[k].at) =>
                             row'[k].kind = "once" /\ t \notin recorded
    BY <1>2 DEF NextBook, Spends
  <2>1. CASE k = j
    BY <1>1, <2>1
  <2>2. CASE k # j
    BY <1>1, <2>2 DEF OnceBooks, NextBook
  <2> QED BY <2>1, <2>2
<1>7. LimitBook'
  <2> SUFFICES ASSUME "resume" \in plan.ops, NEW k \in Jobs
               PROVE  /\ row'[k].kind = plan.kind[k] /\ row'[k].times = plan.times[k]
                      /\ row'[k].here # "gone" /\ row'[k].kind = "once" =>
                           \A t \in Fires : fire[t].at \notin {"none", "released"}
                             /\ fire[t].job = k => t \notin recorded
    BY DEF LimitBook
  <2>1. row'[k].kind = row[k].kind /\ row'[k].times = row[k].times
        /\ (row'[k].here = "gone" \/ row[k].here # "gone")
    BY <1>1
  <2> QED BY <2>1 DEF OnceBooks, LimitBook
<1>8. ResumeBook'
  <2>1. CASE command' = NoCommand
    BY <2>1 DEF ResumeBook, NoCommand
  <2>2. CASE command' = command /\ r.kind = row[j].kind /\ stamp < r.at
    <3> SUFFICES ASSUME command.op = "resume" PROVE ResumeBook'
      BY <2>2 DEF ResumeBook
    <3>1. command.job \in Jobs /\ command.at <= stamp /\ command.at # 0
      BY <1>1 DEF OnceBooks, StampBook, ResumeBook
    <3>2. /\ row'[command.job].kind = row[command.job].kind
          /\ row[command.job].at # command.at => row'[command.job].at # command.at
      <4>1. CASE command.job = j
        <5>1. r.at # command.at
          BY <1>1, <2>2, <3>1 DEF Row
        <5> QED BY <1>1, <2>2, <4>1, <5>1
      <4>2. CASE command.job # j
        BY <1>1, <3>1, <4>2
      <4> QED BY <4>1, <4>2
    <3> QED BY <2>2, <3>1, <3>2 DEF OnceBooks, ResumeBook, Spends
  <2> QED BY <2>1, <2>2
<1>9. ReadBook'
  BY DEF OnceBooks, ReadBook, NoCommand
<1> QED BY <1>3, <1>4, <1>5, <1>6, <1>7, <1>8, <1>9 DEF OnceBooks

\* What a command has read.
LEMMA CommandRead ==
  ASSUME Typed, OnceBooks, UNCHANGED <<row, fire, recorded, replaced, plan>>,
         stamp' \in Nat, stamp <= stamp', command' \in Commands, command'.at <= stamp',
         command'.op \in {"edit", "repeat"} => command'.op \in plan.ops,
         command'.op = "resume" =>
           /\ command'.at # 0 /\ command'.job \in Jobs
           /\ \/ stamp < command'.at
              \/ "resume" \in plan.ops /\ row[command'.job].kind = "once"
  PROVE  OnceBooks'
<1>1. /\ stamp \in Nat /\ command'.at \in Nat
      /\ \A k \in Jobs : row[k].at \in Nat /\ row[k].when \in Nat
      /\ \A t \in Fires : fire[t].slot \in Nat
  BY DEF Typed, FileTyped, Row, FiresTyped, Fire, Commands
<1>2. StampBook'
  <2>1. \A k \in Jobs : row[k].at <= stamp /\ 0 < row[k].when /\ row[k].when <= stamp
    BY DEF OnceBooks, StampBook
  <2>2. \A t \in Fires : fire[t].slot <= stamp
    BY DEF OnceBooks, StampBook
  <2> QED BY <1>1, <2>1, <2>2 DEF StampBook
<1>3. OrderBook' /\ FiredOnce' /\ OwnerBook'
  BY DEF OnceBooks, OrderBook, FiredOnce, OwnerBook
<1>4. NextBook'
  BY DEF OnceBooks, NextBook, Spends
<1>5. LimitBook'
  BY DEF OnceBooks, LimitBook
<1>6. ResumeBook'
  <2> SUFFICES ASSUME command'.op = "resume", stamp < command'.at
               PROVE  /\ row[command'.job].at # command'.at
                      /\ \A t \in Fires : ~Spends(t, command.job, command.at)'
    BY DEF ResumeBook
  <2>1. row[command'.job].at <= stamp
    BY DEF OnceBooks, StampBook
  <2>2. \A t \in Fires : fire[t].slot <= stamp
    BY DEF OnceBooks, StampBook
  <2> QED BY <1>1, <2>1, <2>2 DEF Spends
<1>7. ReadBook'
  BY DEF ReadBook
<1> QED BY <1>2, <1>3, <1>4, <1>5, <1>6, <1>7 DEF OnceBooks

LEMMA TimeOnce ==
  ASSUME Typed, OnceBooks,
         \/ \E j \in Jobs : FallsDue(j) \/ LeaseExpires(j) \/ PauseJob(j) \/ RemoveJob(j)
         \/ \E t \in Fires : Heartbeat(t)
  PROVE  OnceBooks'
<1>1. UNCHANGED <<fire, stamp, command, recorded, replaced, plan>>
  BY DEF FallsDue, LeaseExpires, Heartbeat, PauseJob, RemoveJob, threads, history, bounds
<1>2. row \in [Jobs -> Row]
  BY DEF Typed, FileTyped
<1>3. FiresKept
  BY <1>1 DEF FiresKept
<1>4. ClaimsKept /\ TimeKept
  <2>1. \A r \in Row, b \in BOOLEAN :
          /\ [r EXCEPT !.late = b].claim = r.claim /\ [r EXCEPT !.late = b].at = r.at
          /\ [r EXCEPT !.late = b].when = r.when /\ [r EXCEPT !.late = b].kind = r.kind
          /\ [r EXCEPT !.late = b].times = r.times /\ [r EXCEPT !.late = b].here = r.here
          /\ [r EXCEPT !.late = b].paused = r.paused /\ [r EXCEPT !.late = b].due = r.due
    BY DEF Row
  <2>2. ASSUME NEW j \in Jobs, FallsDue(j) PROVE ClaimsKept /\ TimeKept
    BY <1>2, <2>2 DEF FallsDue, ClaimsKept, TimeKept, Row
  <2>3. ASSUME NEW j \in Jobs, LeaseExpires(j) PROVE ClaimsKept /\ TimeKept
    BY <1>2, <2>1, <2>3 DEF LeaseExpires, ClaimsKept, TimeKept
  <2>4. ASSUME NEW t \in Fires, Heartbeat(t) PROVE ClaimsKept /\ TimeKept
    <3>1. row' = [row EXCEPT ![fire[t].job] = [row[fire[t].job] EXCEPT !.late = FALSE]]
      BY <1>2, <2>4 DEF Heartbeat
    <3>2. ASSUME NEW j \in Jobs
          PROVE  row'[j] = row[j] \/ row'[j] = [row[j] EXCEPT !.late = FALSE]
      BY <1>2, <3>1
    <3>3. \A j \in Jobs : row[j] \in Row BY <1>2
    <3>4. ASSUME NEW j \in Jobs
          PROVE  /\ row'[j].claim = row[j].claim /\ row'[j].at = row[j].at
                 /\ row'[j].when = row[j].when /\ row'[j].kind = row[j].kind
                 /\ row'[j].times = row[j].times /\ row'[j].here = row[j].here
                 /\ row'[j].paused = row[j].paused /\ row'[j].due = row[j].due
      <4>1. CASE row'[j] = row[j] BY <4>1
      <4>2. CASE row'[j] = [row[j] EXCEPT !.late = FALSE]
        <5>1. row[j] \in Row BY <3>3
        <5> QED BY <4>2, <5>1 DEF Row
      <4> QED BY <3>2, <4>1, <4>2
    <3> QED BY <3>4 DEF ClaimsKept, TimeKept
  <2>5. ASSUME NEW j \in Jobs, PauseJob(j) PROVE ClaimsKept /\ TimeKept
    BY <1>2, <2>5 DEF PauseJob, ClaimsKept, TimeKept, Row
  <2>6. ASSUME NEW j \in Jobs, RemoveJob(j) PROVE ClaimsKept /\ TimeKept
    BY <1>2, <2>6 DEF RemoveJob, ClaimsKept, TimeKept, Row
  <2> QED BY <2>2, <2>3, <2>4, <2>5, <2>6
<1> QED BY <1>1, <1>3, <1>4, QuietKeeps

LEMMA ThreadOnce ==
  ASSUME Typed, ClaimBooks, DoneStaysDone, OnceBooks, NEW t \in Fires,
         ThreadStep(t) \/ ThreadFails(t)
  PROVE  OnceBooks'
<1>1. CASE Marks(t) /\ Current(t)
  BY <1>1, MarkKeeps
<1>2. CASE ~(Marks(t) /\ Current(t))
  <2>1. UNCHANGED <<row, stamp, command, recorded, replaced, plan>>
    BY <1>2 DEF ThreadStep, AsksForCwd, RunStarts, RunEnds, ChecksClaim, Marks, ThreadEnds,
      ThreadFails, history, bounds
  <2>2. FiresKept
    BY ThreadMoves DEF FiresKept
  <2> QED BY <2>1, <2>2, FileKept
<1> QED BY <1>1, <1>2

LEMMA AbandonKept ==
  ASSUME NEW f \in [Fires -> Fire], fire' = Abandon(f)
  PROVE  \A u \in Fires :
           /\ fire'[u].job = f[u].job /\ fire'[u].slot = f[u].slot /\ fire'[u].kind = f[u].kind
           /\ fire'[u].at = "none" <=> f[u].at = "none"
           /\ f[u].at = "released" => fire'[u].at = "released"
BY DEF Abandon, Fire

LEMMA ReleaseKept ==
  ASSUME Typed, NEW t \in Fires, fire[t].at = "won", row' = ReleasedClaim(t),
         fire'[t].at = "released"
  PROVE  ClaimsKept /\ TimeKept
BY Ranges DEF ReleasedClaim, ClaimsKept, TimeKept, Typed, FileTyped, Row

LEMMA TickOnce ==
  ASSUME Typed, TickBook, OnceBooks,
         \/ \E p \in Procs : TickStarts(p) \/ Crash(p)
         \/ \E j \in Jobs, at \in 0 .. stamp : TickClaimFails(j, at)
         \/ \E t \in Fires : TickSubmitFails(t) \/ TickHeartbeatFails(t) \/ TickSubmits(t)
         \/ TickEnds
  PROVE  OnceBooks'
<1> USE DEF threads, history, bounds
<1>1. fire \in [Fires -> Fire]
  BY DEF Typed, FiresTyped
<1>2. CASE TickEnds \/ \E p \in Procs : TickStarts(p)
  <2>1. FiresKept
    BY <1>2 DEF TickEnds, TickStarts, FiresKept
  <2> QED BY <1>2, <2>1, FileKept DEF TickEnds, TickStarts
<1>3. ASSUME NEW p \in Procs, Crash(p) PROVE OnceBooks'
  <2>1. FiresKept
    BY <1>1, <1>3, CronAssumption DEF Crash, FiresKept, Fire, Typed, FiresTyped, Made
  <2> QED BY <1>3, <2>1, FileKept DEF Crash
<1>4. ASSUME NEW j \in Jobs, NEW at, TickClaimFails(j, at) PROVE OnceBooks'
  <2>1. FiresKept
    BY <1>1, <1>4, AbandonKept DEF TickClaimFails, FiresKept
  <2> QED BY <1>4, <2>1, FileKept DEF TickClaimFails
<1>5. ASSUME NEW t \in Fires, TickSubmitFails(t) PROVE OnceBooks'
  <2> DEFINE f == [fire EXCEPT ![t].at = "released"]
  <2>1. /\ f \in [Fires -> Fire] /\ f[t].at = "released" /\ f[t].job = fire[t].job
        /\ f[t].slot = fire[t].slot /\ f[t].kind = fire[t].kind
        /\ \A u \in Fires \ {t} : f[u] = fire[u]
    BY <1>1, PhaseFacts DEF Fire
  <2>2. fire' = Abandon(f) /\ row' = ReleasedClaim(t) /\ fire[t].at = "won"
    BY <1>5 DEF TickSubmitFails, Submits, TickBook
  <2> HIDE DEF f
  <2>3. FiresKept
    BY <2>1, <2>2, AbandonKept DEF FiresKept
  <2>4. fire'[t].at = "released"
    BY <2>1, <2>2, AbandonKept
  <2> QED BY <1>5, <2>2, <2>3, <2>4, ReleaseKept, QuietKeeps DEF TickSubmitFails
<1>6. ASSUME NEW t \in Fires, TickHeartbeatFails(t) PROVE OnceBooks'
  <2> DEFINE f == [fire EXCEPT ![t].at = "forsaken"]
  <2>1. /\ f \in [Fires -> Fire] /\ f[t].at = "forsaken" /\ f[t].job = fire[t].job
        /\ f[t].slot = fire[t].slot /\ f[t].kind = fire[t].kind
        /\ \A u \in Fires \ {t} : f[u] = fire[u]
    BY <1>1, PhaseFacts DEF Fire
  <2>2. fire' = Abandon(f) /\ fire[t].at = "won"
    BY <1>6 DEF TickHeartbeatFails, Submits, TickBook
  <2> HIDE DEF f
  <2>3. FiresKept
    BY <2>1, <2>2, AbandonKept DEF FiresKept
  <2> QED BY <1>6, <2>3, FileKept DEF TickHeartbeatFails
<1>7. ASSUME NEW t \in Fires, TickSubmits(t) PROVE OnceBooks'
  <2>1. fire[t].at = "won"
    BY <1>7 DEF TickSubmits, Submits, TickBook
  <2>2. UNCHANGED <<stamp, command, recorded, replaced, plan>>
    BY <1>7 DEF TickSubmits
  <2>3. CASE row' = ReleasedClaim(t) /\ fire' = [fire EXCEPT ![t].at = "released"]
    <3>1. FiresKept /\ fire'[t].at = "released"
      BY <1>1, <2>1, <2>3 DEF FiresKept, Fire
    <3> QED BY <2>1, <2>2, <2>3, <3>1, ReleaseKept, QuietKeeps
  <2>4. CASE row' = row /\ fire' = [fire EXCEPT ![t].at = "queued"]
    <3>1. FiresKept
      BY <1>1, <2>1, <2>4 DEF FiresKept, Fire
    <3> QED BY <2>2, <2>4, <3>1, FileKept
  <2> QED BY <1>7, <2>3, <2>4 DEF TickSubmits
<1> QED BY <1>2, <1>3, <1>4, <1>5, <1>6, <1>7

LEMMA TickClaimsOnce ==
  ASSUME Typed, TickBook, ClaimBooks, OnceBooks, NEW j \in Jobs, NEW at, TickClaims(j, at)
  PROVE  OnceBooks'
<1>1. tick.by \in Procs
  BY TickOwner DEF TickClaims, Typed
<1>2. CASE j \notin running[tick.by] /\ Claimable(tick.by, j, at)
  <2>1. PICK t \in Fires : ClaimForFire(t, tick.by, j)
    BY <1>2 DEF TickClaims
  <2>2. UNCHANGED <<command, recorded, plan>>
    BY DEF TickClaims, bounds
  <2>3. row[j].here = "here" /\ ~row[j].paused /\ row[j].due
    BY <1>2 DEF Claimable
  <2>4. /\ row[j] \in Row /\ row[j].at \in Nat /\ stamp \in Nat /\ row[j].at <= stamp
        /\ row[j].at # 0
    BY <2>3 DEF Typed, FileTyped, Row, OnceBooks, StampBook, NextBook
  <2>5. CASE row[j].kind = "every"
    <3> DEFINE r == [row[j] EXCEPT !.at = stamp + 1, !.due = FALSE]
    <3>1. Claim(t, tick.by, j, "tick", row[j].at, r) /\ stamp' = stamp + 1
      BY <2>1, <2>5 DEF ClaimForFire
    <3>2. stamp + 1 \in Nat /\ stamp < stamp + 1 /\ row[j].at # stamp + 1 /\ 0 < stamp + 1
      BY <2>4
    <3>3. \A n \in Nat : LET q == [row[j] EXCEPT !.at = n, !.due = FALSE] IN
            /\ q \in Row /\ q.here = row[j].here /\ q.kind = row[j].kind
            /\ q.times = row[j].times /\ q.when = row[j].when /\ q.at = n
      BY <2>4 DEF Row
    <3>4. /\ r \in Row /\ r.here = "here" /\ r.kind = row[j].kind
          /\ r.times = row[j].times /\ r.when = row[j].when /\ r.at = stamp + 1
      BY <2>3, <3>2, <3>3
    <3> HIDE DEF r
    <3> QED BY <1>1, <2>2, <2>3, <2>4, <3>1, <3>2, <3>4, ClaimOnce
  <2>6. CASE row[j].kind # "every"
    <3>1. Claim(t, tick.by, j, "tick", row[j].at, row[j]) /\ stamp' = stamp
      BY <2>1, <2>6 DEF ClaimForFire
    <3>2. row[j].kind = "once"
      BY <2>4, <2>6 DEF Row, Kinds
    <3> QED BY <1>1, <2>2, <2>3, <2>4, <3>1, <3>2, ClaimOnce
  <2> QED BY <2>5, <2>6
<1>3. CASE ~(j \notin running[tick.by] /\ Claimable(tick.by, j, at))
  <2>1. UNCHANGED <<row, fire, stamp, command, recorded, replaced, plan>>
    BY <1>3 DEF TickClaims, bounds
  <2>2. FiresKept
    BY <2>1 DEF FiresKept
  <2> QED BY <2>1, <2>2, FileKept
<1> QED BY <1>2, <1>3

LEMMA RunNowOnce ==
  ASSUME Typed, ClaimBooks, OnceBooks, NEW p \in Procs, NEW j \in Jobs, RunJobNow(p, j)
  PROVE  OnceBooks'
<1> DEFINE r == [row[j] EXCEPT !.on = TRUE, !.paused = FALSE]
           now == stamp + 1
<1>1. PICK t \in Fires : ClaimForImmediateFire(t, p, j)
  BY DEF RunJobNow
<1>2. UNCHANGED <<command, recorded, plan>>
  BY DEF RunJobNow
<1>3. row[j] \in Row /\ stamp \in Nat /\ row[j].here = "here"
  BY <1>1 DEF Typed, FileTyped, ClaimForImmediateFire
<1>4. /\ r \in Row /\ r.here = "here" /\ r.kind = row[j].kind /\ r.times = row[j].times
      /\ r.when = row[j].when
  <2>1. r \in Row
    BY <1>3, EndedTyped
  <2> QED BY <1>3, <2>1 DEF Row
<1>5. now \in Nat /\ now + 1 \in Nat /\ stamp < now /\ now < now + 1 /\ 0 < now /\ stamp < now + 1
  BY <1>3
<1>6. \/ /\ r.kind = "every"
         /\ Claim(t, p, j, "hand", now, [r EXCEPT !.at = now + 1, !.due = FALSE])
         /\ stamp' = now + 1
      \/ /\ r.kind # "every"
         /\ Claim(t, p, j, "hand", now, [r EXCEPT !.at = now, !.due = TRUE])
         /\ stamp' = now
  BY <1>1 DEF ClaimForImmediateFire
<1> HIDE DEF r, now
<1>7. \A n \in Nat, b \in BOOLEAN : LET q == [r EXCEPT !.at = n, !.due = b] IN
        /\ q \in Row /\ q.here = r.here /\ q.kind = r.kind
        /\ q.times = r.times /\ q.when = r.when /\ q.at = n
  BY <1>4 DEF Row
<1>8. CASE r.kind = "every"
  <2> DEFINE q == [r EXCEPT !.at = now + 1, !.due = FALSE]
  <2>1. Claim(t, p, j, "hand", now, q) /\ stamp' = now + 1
    BY <1>6, <1>8
  <2>2. /\ q \in Row /\ q.here = "here" /\ q.kind = row[j].kind
        /\ q.times = row[j].times /\ q.when = row[j].when /\ q.at = now + 1
    BY <1>4, <1>5, <1>7
  <2> HIDE DEF q
  <2>3. q.at # now /\ stamp <= stamp' /\ now <= stamp' /\ 0 < q.at /\ stamp < q.at
    BY <1>3, <1>5, <2>1, <2>2
  <2> QED BY <1>2, <1>3, <1>5, <2>1, <2>2, <2>3, ClaimOnce
<1>9. CASE r.kind # "every"
  <2> DEFINE q == [r EXCEPT !.at = now, !.due = TRUE]
  <2>1. Claim(t, p, j, "hand", now, q) /\ stamp' = now
    BY <1>6, <1>9
  <2>2. /\ q \in Row /\ q.here = "here" /\ q.kind = row[j].kind
        /\ q.times = row[j].times /\ q.when = row[j].when /\ q.at = now
    BY <1>4, <1>5, <1>7
  <2>3. q.kind = "once"
    BY <1>4, <1>9, <2>2 DEF Row, Kinds
  <2> HIDE DEF q
  <2>4. /\ stamp' \in Nat /\ stamp <= stamp' /\ now <= stamp' /\ 0 < q.at /\ q.at <= stamp'
        /\ stamp < now
    BY <1>3, <1>5, <2>1, <2>2
  <2> QED BY <1>2, <1>3, <1>5, <2>1, <2>2, <2>3, <2>4, ClaimOnce
<1> QED BY <1>8, <1>9

LEMMA ReadsOnce ==
  ASSUME Typed, Typed', OnceBooks, NEW j \in Jobs,
         \/ ResumeReads(j) \/ TriggerReads(j) \/ RepeatReads(j)
         \/ \E kind \in Kinds : EditReads(j, kind)
  PROVE  OnceBooks'
<1>1. /\ UNCHANGED <<row, fire, recorded, replaced, plan>>
      /\ command' \in Commands /\ row[j] \in Row /\ stamp \in Nat /\ stamp' \in Nat
  BY DEF ResumeReads, TriggerReads, RepeatReads, EditReads, threads, history, Typed, CommandTyped,
    FileTyped
<1>2. /\ row[j].when \in Nat /\ 0 < row[j].when /\ row[j].when <= stamp
      /\ stamp + 1 \in Nat /\ stamp < stamp + 1 /\ 0 < stamp + 1
  BY <1>1 DEF OnceBooks, StampBook, Row
<1>3. CASE RepeatReads(j) \/ \E kind \in Kinds : EditReads(j, kind)
  <2>1. /\ command'.at = 0 /\ command'.op # "resume" /\ command'.op \in plan.ops
        /\ stamp' = stamp
    BY <1>3 DEF RepeatReads, EditReads, Reads, NoCommand, Command
  <2> QED BY <1>1, <2>1, CommandRead
<1>4. CASE TriggerReads(j) \/ (ResumeReads(j) /\ row[j].kind = "every")
  <2>1. /\ command'.at = stamp + 1 /\ command'.job = j /\ command'.op = "resume"
        /\ stamp' = stamp + 1
    BY <1>4 DEF TriggerReads, ResumeReads, Reads, NoCommand
  <2> QED BY <1>1, <1>2, <2>1, CommandRead
<1>5. CASE ResumeReads(j) /\ row[j].kind # "every"
  <2>1. /\ command'.at = row[j].when /\ command'.job = j /\ command'.op = "resume"
        /\ stamp' = stamp
        /\ "resume" \in plan.ops
    BY <1>5 DEF ResumeReads, Reads, NoCommand, Command
  <2>2. row[j].kind = "once"
    BY <1>1, <1>5 DEF Row, Kinds
  <2> QED BY <1>1, <1>2, <2>1, <2>2, CommandRead
<1> QED BY <1>3, <1>4, <1>5

LEMMA CreateOnce ==
  ASSUME Typed, OnceBooks, NEW j \in Jobs, CreateJob(j)
  PROVE  OnceBooks'
<1>1. row \in [Jobs -> Row] /\ row[j] \in Row /\ stamp \in Nat /\ stamp + 1 \in Nat
  BY DEF Typed, FileTyped
<1>2. \A n \in Nat : LET q == [row[j] EXCEPT !.here = "here", !.at = n, !.when = n] IN
        /\ q \in Row /\ q.claim = row[j].claim /\ q.kind = row[j].kind /\ q.times = row[j].times
        /\ q.at = n /\ q.when = n
  BY <1>1 DEF Row
<1> DEFINE r == [row[j] EXCEPT !.here = "here", !.at = stamp + 1, !.when = stamp + 1]
<1>3. /\ r \in Row /\ r.claim = row[j].claim /\ r.kind = row[j].kind /\ r.times = row[j].times
      /\ r.at = stamp + 1 /\ r.when = stamp + 1
  BY <1>1, <1>2
<1>4. /\ row' = [row EXCEPT ![j] = r] /\ stamp' = stamp + 1 /\ row[j].here # "gone"
      /\ UNCHANGED <<fire, recorded, replaced, plan, command>>
  BY <1>1 DEF CreateJob, threads, history
<1> HIDE DEF r
<1>5. \A t \in Fires : ~Spends(t, j, r.at)
  <2>1. \A t \in Fires : fire[t].slot \in Nat /\ fire[t].slot <= stamp
    BY DEF Typed, FiresTyped, Fire, OnceBooks, StampBook
  <2> QED BY <1>1, <1>3, <2>1 DEF Spends
<1>6. /\ stamp' \in Nat /\ stamp <= stamp' /\ r.at <= stamp' /\ 0 < r.when /\ r.when <= stamp'
      /\ r.at # 0 /\ stamp < r.at
  BY <1>1, <1>3, <1>4
<1> HIDE DEF CreateJob
<1> QED BY <1>3, <1>4, <1>5, <1>6, RowWritten

LEMMA UpdateOnce ==
  ASSUME Typed, DoneStaysDone, OnceBooks, UpdateJob
  PROVE  OnceBooks'
<1> DEFINE j == command.job
<1>1. /\ j \in Jobs /\ row[j] \in Row /\ row \in [Jobs -> Row]
      /\ stamp \in Nat /\ stamp + 1 \in Nat /\ stamp < stamp + 1 /\ 0 < stamp + 1
      /\ command.op # "none" /\ command.at \in Nat /\ command.due \in BOOLEAN
      /\ command.kind \in Kinds /\ command.paused \in BOOLEAN /\ command.done \in Nat
      /\ command.op \in {"resume", "edit", "repeat"}
  BY DEF UpdateJob, Typed, FileTyped, CommandTyped, Commands
<1>2. command' = NoCommand /\ UNCHANGED <<fire, recorded, replaced, plan>>
  BY DEF UpdateJob, threads, history, bounds
<1>3. /\ row[j].at \in Nat /\ row[j].at <= stamp
      /\ row[j].when \in Nat /\ 0 < row[j].when /\ row[j].when <= stamp
      /\ command.at <= stamp
  BY <1>1 DEF OnceBooks, StampBook, Row
<1> HIDE DEF j
<1>4. CASE row' = row /\ stamp' = stamp
  <2>1. NoCommand \in Commands /\ NoCommand.at = 0 /\ NoCommand.op = "none"
    BY DEF NoCommand, Commands, Kinds
  <2> QED BY <1>1, <1>2, <1>4, <2>1, CommandRead
<1>5. CASE row[j].here = "here" /\ command.op = "resume"
           /\ row' = [row EXCEPT ![j] = Resumed(row[j])] /\ stamp' = stamp
  <2> DEFINE r == Resumed(row[j])
  <2>1. /\ r \in Row /\ r.claim = row[j].claim /\ r.kind = row[j].kind /\ r.times = row[j].times
        /\ r.at = command.at /\ r.when = row[j].when /\ r.here = row[j].here
    BY <1>1 DEF Resumed, Row
  <2> HIDE DEF r
  <2>2. command.at # 0
    BY <1>5 DEF OnceBooks, ResumeBook
  <2>3. \A t \in Fires : Spends(t, j, command.at) => row[j].kind = "once" /\ t \notin recorded
    <3>1. CASE \A t \in Fires : ~Spends(t, j, command.at)
      BY <3>1
    <3>2. CASE "resume" \in plan.ops /\ row[j].kind = "once"
      BY <1>1, <1>5, <3>2 DEF OnceBooks, LimitBook, Spends
    <3> QED BY <1>5, <3>1, <3>2 DEF OnceBooks, ResumeBook, j
  <2>4. row' = [row EXCEPT ![j] = r]
    BY <1>5 DEF r
  <2>5. /\ stamp' \in Nat /\ stamp <= stamp' /\ r.at <= stamp' /\ 0 < r.when /\ r.when <= stamp'
        /\ r.at # 0 /\ r.here # "gone" /\ row[j].here # "gone" /\ j \in Jobs
        /\ \A t \in Fires : Spends(t, j, r.at) => r.kind = "once" /\ t \notin recorded
    BY <1>1, <1>3, <1>5, <2>1, <2>2, <2>3
  <2> QED BY <1>2, <2>1, <2>4, <2>5, RowWritten
<1>6. CASE row[j].here = "here" /\ command.op \in {"edit", "repeat"}
  <2>1. "resume" \notin plan.ops
    BY <1>6 DEF OnceBooks, ReadBook, DoneStaysDone
  <2>2. CASE command.op = "edit"
    <3>1. /\ (command.paused /\ row[j].paused) \in BOOLEAN
          /\ (row[j].on \/ ~command.paused) \in BOOLEAN
      BY <1>1 DEF Row
    <3>2. PICK now \in Nat, paused \in BOOLEAN, on \in BOOLEAN :
            /\ now = stamp + 1
            /\ paused = (command.paused /\ row[j].paused)
            /\ on = (row[j].on \/ ~command.paused)
      BY <1>1, <3>1
    <3> DEFINE new == [row[j] EXCEPT !.kind = command.kind, !.when = now, !.on = on,
                                     !.paused = paused]
               fresh == [new EXCEPT !.at = now, !.due = FALSE]
    <3>3. /\ new \in Row /\ new.claim = row[j].claim /\ new.at = row[j].at /\ new.when = now
          /\ new.paused = paused /\ new.due = row[j].due
      <4>1. new \in Row
        BY <1>1 DEF Row
      <4> QED BY <1>1, <4>1 DEF Row
    <3> HIDE DEF new
    <3>4. \A n \in Nat : LET q == [new EXCEPT !.at = n, !.due = FALSE] IN
            q \in Row /\ q.claim = new.claim /\ q.at = n /\ q.when = new.when /\ ~q.due
      BY <3>3 DEF Row
    <3>5. /\ fresh \in Row /\ fresh.claim = row[j].claim /\ fresh.at = now
          /\ fresh.when = now /\ ~fresh.due
      BY <1>1, <3>3, <3>4
    <3> HIDE DEF fresh
    <3>6. /\ stamp' = now
          /\ row' = [row EXCEPT ![j] = IF paused THEN new ELSE fresh]
      <4>1. stamp' = stamp + 1 /\ row' = [row EXCEPT ![j] = Edited(row[j])]
        BY <1>1, <1>6, <2>2 DEF UpdateJob, j
      <4>2. Edited(row[j]) = IF paused THEN new ELSE fresh
        BY <3>2 DEF Edited, new, fresh
      <4> QED BY <3>2, <4>1, <4>2
    <3>7. \A t \in Fires : ~Spends(t, j, fresh.at)
      <4>1. \A t \in Fires : fire[t].slot \in Nat /\ fire[t].slot <= stamp
        BY DEF Typed, FiresTyped, Fire, OnceBooks, StampBook
      <4> QED BY <1>1, <3>2, <3>5, <4>1 DEF Spends
    <3>8. row[j].due => row[j].at # 0
      BY <1>1, <1>6 DEF OnceBooks, NextBook
    <3>9. /\ stamp' \in Nat /\ stamp <= stamp' /\ row[j].at <= stamp' /\ now <= stamp'
          /\ 0 < now /\ j \in Jobs
      BY <1>1, <1>3, <3>2, <3>6
    <3>10. CASE paused
      <4>1. /\ row' = [row EXCEPT ![j] = new] /\ new.at <= stamp' /\ new.when <= stamp'
            /\ 0 < new.when /\ new.paused /\ (new.due => new.at # 0)
        BY <3>3, <3>6, <3>8, <3>9, <3>10
      <4> QED BY <1>2, <2>1, <3>3, <3>9, <4>1, RowWritten
    <3>11. CASE ~paused
      <4>1. /\ row' = [row EXCEPT ![j] = fresh] /\ fresh.at <= stamp' /\ fresh.when <= stamp'
            /\ 0 < fresh.when
        BY <3>5, <3>6, <3>9, <3>11
      <4> QED BY <1>2, <2>1, <3>5, <3>7, <3>9, <4>1, RowWritten
    <3> QED BY <3>10, <3>11
  <2>3. CASE command.op = "repeat"
    <3>1. PICK n \in {0, 2} : row' = [row EXCEPT ![j].times = n, ![j].done = command.done]
      BY <1>6, <2>3 DEF UpdateJob, j
    <3> DEFINE r == [row[j] EXCEPT !.times = n, !.done = command.done]
    <3>2. /\ r \in Row /\ r.claim = row[j].claim /\ r.at = row[j].at /\ r.when = row[j].when
          /\ r.here = row[j].here /\ r.paused = row[j].paused /\ r.due = row[j].due
          /\ r.kind = row[j].kind
      <4>1. n \in Nat
        OBVIOUS
      <4>2. r \in Row
        BY <1>1, <4>1 DEF Row
      <4> QED BY <1>1, <4>2 DEF Row
    <3>3. row' = [row EXCEPT ![j] = r] /\ stamp' = stamp
      BY <1>1, <1>6, <2>3, <3>1 DEF UpdateJob, j
    <3> HIDE DEF r
    <3>4. /\ row[j].due => row[j].at # 0
          /\ ~row[j].paused /\ row[j].at # 0 =>
               \A t \in Fires : Spends(t, j, row[j].at) =>
                 row[j].kind = "once" /\ t \notin recorded
      BY <1>1, <1>6 DEF OnceBooks, NextBook
    <3>5. /\ stamp' \in Nat /\ stamp <= stamp' /\ r.at <= stamp' /\ 0 < r.when /\ r.when <= stamp'
          /\ j \in Jobs /\ (r.due => r.at # 0)
          /\ r.here = "here" /\ ~r.paused /\ r.at # 0 =>
               \A t \in Fires : Spends(t, j, r.at) => r.kind = "once" /\ t \notin recorded
      BY <1>1, <1>3, <3>2, <3>3, <3>4
    <3> QED BY <1>2, <2>1, <3>2, <3>3, <3>5, RowWritten
  <2> QED BY <1>6, <2>2, <2>3
<1> QED BY <1>1, <1>4, <1>5, <1>6 DEF UpdateJob, j

LEMMA StepOnce ==
  ASSUME Typed, TickBook, ClaimBooks, DoneStaysDone, OnceBooks, CronNext
  PROVE  OnceBooks'
<1>1. Typed'
  BY StepTyped
<1>2. OperatorStep => OnceBooks'
  BY <1>1, TimeOnce, ReadsOnce, CreateOnce, RunNowOnce DEF OperatorStep
<1> QED
  BY <1>2, TimeOnce, ThreadOnce, TickOnce, TickClaimsOnce, UpdateOnce DEF CronNext, TickGoesOn


-----------------------------------------------------------------------------
(* Theorems.                                                               *)

LEMMA InitBooks == Init => TickBook /\ ClaimBooks
<1> SUFFICES ASSUME Init PROVE TickBook /\ ClaimBooks
  OBVIOUS
<1> USE PhaseFacts
<1>1. \A j \in Jobs : row[j].claim = None
  BY DEF Init
<1>2. \A t \in Fires : ~Executing(t)
  BY DEF Init, Executing
<1>3. TickBook /\ replaced = {} /\ recorded = {}
  BY DEF Init, TickBook, NoTick
<1> QED
  BY <1>1, <1>2, <1>3 DEF ClaimBooks, ClaimBook, AliveBook, HeldBook, SilentBook,
    StolenStaysSilent

LEMMA StepBooks ==
  ASSUME Typed, TickBook, ClaimBooks, CronNext
  PROVE  TickBook' /\ ClaimBooks'
BY TimeBooks, ThreadStepBooks, TickBooks, TickClaimsBooks, CrashBooks, CommandBooks
   DEF CronNext, TickGoesOn

\* The inductive invariant holds of the jobs at all times.
THEOREM CronInvariance == CronSpec => []IndInv
<1>1. Init => IndInv
  BY InitTyped, InitBooks DEF IndInv
<1>2. IndInv /\ [CronNext]_vars => IndInv'
  <2> SUFFICES ASSUME IndInv, [CronNext]_vars PROVE IndInv'
    OBVIOUS
  <2>1. CASE CronNext
    BY <2>1, StepTyped, StepBooks DEF IndInv
  <2>2. CASE UNCHANGED vars
    <3>1. /\ UNCHANGED <<row, fire, running, cwd, proc, tick, command, stamp>>
          /\ UNCHANGED <<recorded, replaced, plan, falls, acts, ills>>
      BY <2>2 DEF vars, threads, history, bounds
    <3>2. Typed'
      BY <3>1 DEF IndInv, Typed, FileTyped, FiresTyped, Made, ProcsTyped, CommandTyped, RestTyped
    <3>3. TickBook' /\ ClaimBooks'
      BY <3>1, FileBooks DEF IndInv
    <3> QED BY <3>2, <3>3 DEF IndInv
  <2> QED BY <2>1, <2>2
<1> QED BY <1>1, <1>2, PTL DEF CronSpec

\* The variables keep their types, whatever crashes, fails or is commanded (cron/jobs.py).
THEOREM CronTypeCorrect == CronSpec => []CronTypeOK
<1>1. IndInv => CronTypeOK
  BY TypedIsTypeOK DEF IndInv
<1> QED BY <1>1, CronInvariance, PTL

\* As long as the processes see one another, no job is carried out twice at once, by whatever
\* ticks, runs by hand, sleeps and crashes (claim_job_for_fire, _run_claim_is_active).
THEOREM NeverTwiceAtOnce == CronSpec => []NoOverlap
<1>1. IndInv => NoOverlap
  BY DEF IndInv, ClaimBooks, HeldBook, NoOverlap
<1> QED BY <1>1, CronInvariance, PTL

\* A fire whose claim another has taken has recorded nothing and never will, wherever the two
\* run (job_run_claim_is_current, mark_job_run).
THEOREM StolenIsSilent == CronSpec => []StolenStaysSilent
<1>1. IndInv => StolenStaysSilent
  BY DEF IndInv, ClaimBooks, SilentBook
<1> QED BY <1>1, CronInvariance, PTL

\* A job with a workdir runs in its own, whatever else runs in its process (_ReadWriteLock,
\* run_job).
THEOREM WorkdirsAreOwn == CronSpec => []WorkdirIsOwn
<1>1. Init => CwdBook
  BY DEF Init, CwdBook, WorkdirIsOwn
<1>2. IndInv /\ CwdBook /\ [CronNext]_vars => CwdBook'
  <2> SUFFICES ASSUME IndInv, CwdBook, [CronNext]_vars PROVE CwdBook'
    OBVIOUS
  <2>1. CASE CronNext
    BY <2>1, StepCwd DEF IndInv
  <2>2. CASE UNCHANGED vars
    BY <2>2, WorkKeeps DEF WorkKept, vars, threads, bounds
  <2> QED BY <2>1, <2>2
<1>3. CwdBook => WorkdirIsOwn
  BY DEF CwdBook
<1> QED BY <1>1, <1>2, <1>3, CronInvariance, PTL DEF CronSpec

\* One time of the schedule starts one run: it starts another only of a one-shot, and only when
\* the claim of the first was taken without a result, wherever the processes run and whatever
\* crashes.  For every plan in which no one-shot is resumed after its result
\* (claim_job_for_fire, claim_job_for_immediate_fire, mark_job_run, update_job).
THEOREM OneRunForEachTime == CronSpec => [](DoneStaysDone => FiredOnce)
<1> DEFINE Inv == DoneStaysDone => OnceBooks
<1>1. Init => Inv
  <2> SUFFICES ASSUME Init PROVE OnceBooks
    OBVIOUS
  <2>1. \A t \in Fires : fire[t].at = "none" /\ fire[t].slot = 0
    BY DEF Init
  <2>2. \A j \in Jobs : /\ row[j].at = 1 /\ row[j].when = 1 /\ ~row[j].due
                        /\ row[j].kind = plan.kind[j] /\ row[j].times = plan.times[j]
    BY DEF Init
  <2>3. command.op = "none" /\ command.at = 0 /\ stamp = 1
    BY DEF Init, NoCommand
  <2> QED
    BY <2>1, <2>2, <2>3 DEF OnceBooks, StampBook, OrderBook, OwnerBook, NextBook, LimitBook,
      ReadBook, ResumeBook, FiredOnce, Spends
<1>2. IndInv /\ Inv /\ [CronNext]_vars => Inv'
  <2> SUFFICES ASSUME IndInv, Inv, [CronNext]_vars, DoneStaysDone' PROVE OnceBooks'
    OBVIOUS
  <2>1. plan' = plan
    BY DEF CronNext, FallsDue, LeaseExpires, ThreadStep, AsksForCwd, RunStarts, RunEnds,
      ChecksClaim, Marks, ThreadEnds, Heartbeat, ThreadFails, TickSubmitFails, TickClaimFails,
      TickHeartbeatFails, TickStarts, Crash, TickGoesOn, TickClaims, TickSubmits, TickEnds,
      OperatorStep, CreateJob, PauseJob, RemoveJob, ResumeReads, TriggerReads, RepeatReads,
      EditReads, RunJobNow, UpdateJob, vars, bounds
  <2>2. DoneStaysDone /\ OnceBooks
    BY <2>1 DEF DoneStaysDone
  <2>3. CASE CronNext
    BY <2>2, <2>3, StepOnce DEF IndInv
  <2>4. CASE UNCHANGED vars
    BY <2>2, <2>4, FileKept DEF FiresKept, IndInv, vars, threads, history, bounds
  <2> QED BY <2>3, <2>4
<1>3. Inv => (DoneStaysDone => FiredOnce)
  BY DEF OnceBooks
<1> HIDE DEF Inv
<1> QED BY <1>1, <1>2, <1>3, CronInvariance, PTL DEF CronSpec
=============================================================================
