------------------------ MODULE SessionDeliveryProofs ------------------------
(***************************************************************************)
(* Proofs that the invariants of SessionDelivery hold for every number of   *)
(* callers, items and faults.                                               *)
(***************************************************************************)
EXTENDS SessionDelivery, TLAPS

-----------------------------------------------------------------------------
(* The inductive invariant.                                                *)

Holding == {"deliver", "mark", "save", "sentsave"}

\* The stages between which a call holds work_transaction.
LockIsHeld == \A t \in Callers : calls[t].stage \in Holding <=> tx = t

\* What a call carries: notes while it marks them, else outbox entries, and what
\* it submits is an entry or an input of its own.
Carried == \A t \in Callers :
  /\ calls[t].sent \subseteq Of("entry")
  /\ calls[t].now \subseteq Of("entry") \cup Of("input")
  /\ IF At(t, "mark") THEN calls[t].set \subseteq Of("note")
                      ELSE calls[t].set \subseteq Of("entry")
  /\ At(t, "submit") => calls[t].now \subseteq Of("entry")

\* The work state of the file, and of the snapshot being written to it, is the
\* one in memory.
Stored == /\ live.work = disk.work
          /\ \A t \in Callers : calls[t].stage \in {"save", "sentsave"} =>
               calls[t].snap.work = live.work

KeepsDelivered(x) == \A i \in Of("note") : x.work[i] = "done" => Copies(x, i) > 0

Kept == /\ KeepsDelivered(live) /\ KeepsDelivered(disk)
        /\ \A t \in Callers : KeepsDelivered(calls[t].snap)
        /\ \A t \in Callers : At(t, "mark") =>
             \A i \in calls[t].set : Copies(live, i) > 0

\* How many copies of an item a session can have.
CountedOf(x, i, a, f) ==
  /\ Copies(x, i) <= 1 + f
  /\ Kind[i] = "note" /\ x.work[i] = "none" => Copies(x, i) = 0
  /\ Kind[i] = "entry" => Copies(x, i) <= 1 /\ (i \notin x.records => Copies(x, i) = 0)
  /\ Kind[i] = "input" => Copies(x, i) <= 1 /\ (i \notin a => Copies(x, i) = 0)
Counted(x, a, f) == \A i \in Items : CountedOf(x, i, a, f)

\* A pending note has one copy for each delivery that failed, except between
\* its submission and its mark.
PendingCounted == \A i \in Of("note") :
  live.work[i] = "pending" /\ (\A t \in Callers : At(t, "mark") => i \notin calls[t].set)
    => Copies(live, i) <= faults

\* An entry is recorded before it is submitted, by one call.
Submitting ==
  /\ \A t \in Callers : At(t, "submit") =>
       \A i \in calls[t].now : i \in live.records /\ Copies(live, i) = 0
  /\ \A t, u \in Callers : At(t, "submit") /\ At(u, "submit") /\ t # u =>
       calls[t].now \cap calls[u].now = {}

CopiesCounted == /\ Counted(live, asked, faults) /\ Counted(disk, asked, faults)
                 /\ \A t \in Callers : Counted(calls[t].snap, asked, faults)
                 /\ PendingCounted /\ Submitting

\* What a rollback takes from the trajectory it puts back into the mailbox.
RollsBack == turn.kind = "wake" =>
  \A i \in Items : live.history[i] = turn.keep.history[i] + turn.batch[i]

Answered == turn.stage \notin {"none", "tools"} => ~live.dangling

IInv == /\ TypeOK /\ LockIsHeld /\ Carried /\ Stored /\ Kept /\ CopiesCounted
        /\ RollsBack /\ Answered

-----------------------------------------------------------------------------
(* Types.                                                                  *)

Stages == {"idle", "deliver", "mark", "drain", "send", "submit", "sent", "sentsave", "save"}
Call == [stage: Stages, set: SUBSET Items, now: SUBSET Items, sent: SUBSET Items,
         snap: Session]
Path == [history: Bag, dangling: BOOLEAN]
Turn == [kind: {"none", "wake", "prompt"}, batch: Bag, keep: Path,
         stage: {"none", "head", "generate", "stopping", "tools", "leaving"}]

(* The initial values have their types. *)
LEMMA Constants ==
  /\ Nothing \in Bag /\ Blank \in Session /\ IdleCall \in Call /\ NoTurn \in Turn
  /\ Trajectory(Blank) \in Path
<1>1. Nothing \in Bag
  BY DEF Nothing, Bag
<1>2. Blank \in Session
  BY <1>1 DEF Blank, Session
<1>3. IdleCall \in Call
  BY <1>2 DEF IdleCall, Call, Stages
<1>4. Trajectory(Blank) \in Path
  BY <1>2, <1>1 DEF Trajectory, Blank, Path
<1>5. NoTurn \in Turn
  BY <1>1, <1>4 DEF NoTurn, Turn
<1>6. QED
  BY <1>1, <1>2, <1>3, <1>4, <1>5

(* One more copy of each of some messages. *)
LEMMA PlusSetTyped ==
  ASSUME NEW b \in Bag, NEW S
  PROVE  /\ PlusSet(b, S) \in Bag
         /\ \A i \in Items : PlusSet(b, S)[i] = IF i \in S THEN b[i] + 1 ELSE b[i]
  BY DEF Bag, PlusSet

(* A session's fields have their types. *)
LEMMA SessionFields ==
  ASSUME NEW x \in Session
  PROVE  /\ x.work \in [Items -> {"none", "pending", "done"}] /\ x.records \in SUBSET Items
         /\ x.mailbox \in Bag /\ x.history \in Bag /\ x.dangling \in BOOLEAN
         /\ Trajectory(x) \in Path
         /\ Trajectory(x).history = x.history /\ Trajectory(x).dangling = x.dangling
  BY DEF Session, Trajectory, Path

(* The sum of two collections is one. *)
LEMMA PlusTyped ==
  ASSUME NEW b \in Bag, NEW d \in Bag
  PROVE  Plus(b, d) \in Bag /\ \A i \in Items : Plus(b, d)[i] = b[i] + d[i]
  BY DEF Bag, Plus

(* A session whose mailbox is replaced. *)
LEMMA MailboxWith ==
  ASSUME NEW x \in Session, NEW b \in Bag, NEW y, y = [x EXCEPT !.mailbox = b]
  PROVE  /\ y \in Session /\ y.mailbox = b /\ y.work = x.work
         /\ y.records = x.records /\ y.history = x.history /\ y.dangling = x.dangling
  BY DEF Session

(* A session with one more record. *)
LEMMA RecordsGrow ==
  ASSUME NEW x \in Session, NEW i \in Items, NEW y, y = [x EXCEPT !.records = @ \cup {i}]
  PROVE  /\ y \in Session /\ y.records = x.records \cup {i} /\ y.work = x.work
         /\ y.mailbox = x.mailbox /\ y.history = x.history /\ y.dangling = x.dangling
  BY DEF Session

(* A session whose dangling calls are replaced. *)
LEMMA DanglingWith ==
  ASSUME NEW x \in Session, NEW d \in BOOLEAN, NEW y, y = [x EXCEPT !.dangling = d]
  PROVE  /\ y \in Session /\ y.dangling = d /\ y.work = x.work
         /\ y.mailbox = x.mailbox /\ y.history = x.history /\ y.records = x.records
  BY DEF Session

(* The types of the variables, by name. *)
LEMMA Typed ==
  ASSUME TypeOK
  PROVE  /\ live \in Session /\ disk \in Session /\ calls \in [Callers -> Call]
         /\ tx \in Callers \cup {Free} /\ turn \in Turn
         /\ wakes \in Nat /\ loading \in BOOLEAN /\ stranded \in BOOLEAN
         /\ asked \subseteq Of("input") /\ faults \in 0..MaxFaults
         /\ \A t \in Callers : /\ calls[t] \in Call /\ calls[t].snap \in Session
                               /\ calls[t].set \subseteq Items /\ calls[t].now \subseteq Items
                               /\ calls[t].sent \subseteq Items /\ calls[t].stage \in Stages
         /\ faults \in Nat /\ turn.batch \in Bag /\ turn.keep \in Path
         /\ turn.keep.history \in Bag /\ turn.keep.dangling \in BOOLEAN
  BY BoundsAreNats DEF TypeOK, Call, Stages, Turn, Path

(* The types of the variables after a step, put together. *)
LEMMA TypedNext ==
  ASSUME live' \in Session, disk' \in Session, calls' \in [Callers -> Call],
         tx' \in Callers \cup {Free}, turn' \in Turn,
         wakes' \in Nat, loading' \in BOOLEAN, stranded' \in BOOLEAN,
         asked' \subseteq Of("input"), faults' \in 0..MaxFaults
  PROVE  TypeOK'
  BY DEF TypeOK, Call, Stages, Turn, Path

\* One call goes from its record to another.
Becomes(t, g, S, N, R, x) ==
  /\ calls' \in [Callers -> Call]
  /\ calls'[t].stage = g /\ calls'[t].set = S /\ calls'[t].now = N
  /\ calls'[t].sent = R /\ calls'[t].snap = x
  /\ \A u \in Callers : u # t => calls'[u] = calls[u]

(* A call's record replaced. *)
LEMMA CallBecomes ==
  ASSUME calls \in [Callers -> Call], NEW t \in Callers, NEW k \in Call,
         calls' = [calls EXCEPT ![t] = k]
  PROVE  Becomes(t, k.stage, k.set, k.now, k.sent, k.snap)
  BY DEF Becomes

(* A call's fields replaced: it returns. *)
LEMMA CallReturns ==
  ASSUME calls \in [Callers -> Call], NEW t \in Callers,
         calls' = [calls EXCEPT ![t] = IdleCall]
  PROVE  Becomes(t, "idle", {}, {}, {}, Blank)
  BY Constants DEF Becomes, Call, IdleCall

(* A call's fields replaced: the call goes to another stage. *)
LEMMA CallAtStage ==
  ASSUME calls \in [Callers -> Call], NEW t \in Callers, NEW c \in Call, c = calls[t],
         NEW g \in Stages,
         calls' = [calls EXCEPT ![t].stage = g]
  PROVE  Becomes(t, g, c.set, c.now, c.sent, c.snap)
<1> DEFINE k == [c EXCEPT !.stage = g]
<1>1. calls' = [calls EXCEPT ![t] = k]
  BY Zenon
<1>2. /\ k \in Call
      /\ <<t, k.stage, k.set, k.now, k.sent, k.snap>>
           = <<t, g, c.set, c.now, c.sent, c.snap>>
  BY ONLY c \in Call, g \in Stages DEF Call
<1> HIDE DEF k
<1>3. Becomes(t, k.stage, k.set, k.now, k.sent, k.snap)
  BY <1>1, <1>2, CallBecomes
<1>4. QED
  BY <1>2, <1>3, Zenon

(* A call's fields replaced: it is given a set of items and goes on. *)
LEMMA CallTakes ==
  ASSUME calls \in [Callers -> Call], NEW t \in Callers, NEW c \in Call, c = calls[t],
         NEW g \in Stages, NEW S \in SUBSET Items,
         calls' = [calls EXCEPT ![t].set = S, ![t].stage = g]
  PROVE  Becomes(t, g, S, c.now, c.sent, c.snap)
<1> DEFINE k == [c EXCEPT !.set = S, !.stage = g]
<1>1. calls' = [calls EXCEPT ![t] = k]
  BY Zenon
<1>2. /\ k \in Call
      /\ <<t, k.stage, k.set, k.now, k.sent, k.snap>>
           = <<t, g, S, c.now, c.sent, c.snap>>
  BY ONLY c \in Call, g \in Stages, S \in SUBSET Items DEF Call
<1> HIDE DEF k
<1>3. Becomes(t, k.stage, k.set, k.now, k.sent, k.snap)
  BY <1>1, <1>2, CallBecomes
<1>4. QED
  BY <1>2, <1>3, Zenon

(* A call's fields replaced: it goes on with a set of items. *)
LEMMA CallDrains ==
  ASSUME calls \in [Callers -> Call], NEW t \in Callers, NEW c \in Call, c = calls[t],
         NEW g \in Stages, NEW S \in SUBSET Items,
         calls' = [calls EXCEPT ![t].stage = g, ![t].set = S]
  PROVE  Becomes(t, g, S, c.now, c.sent, c.snap)
<1> DEFINE k == [c EXCEPT !.stage = g, !.set = S]
<1>1. calls' = [calls EXCEPT ![t] = k]
  BY Zenon
<1>2. /\ k \in Call
      /\ <<t, k.stage, k.set, k.now, k.sent, k.snap>>
           = <<t, g, S, c.now, c.sent, c.snap>>
  BY ONLY c \in Call, g \in Stages, S \in SUBSET Items DEF Call
<1> HIDE DEF k
<1>3. Becomes(t, k.stage, k.set, k.now, k.sent, k.snap)
  BY <1>1, <1>2, CallBecomes
<1>4. QED
  BY <1>2, <1>3, Zenon

(* A call's fields replaced: it goes on with the items of one submission. *)
LEMMA CallSubmitted ==
  ASSUME calls \in [Callers -> Call], NEW t \in Callers, NEW c \in Call, c = calls[t],
         NEW g \in Stages, NEW S \in SUBSET Items,
         calls' = [calls EXCEPT ![t].stage = g, ![t].now = S]
  PROVE  Becomes(t, g, c.set, S, c.sent, c.snap)
<1> DEFINE k == [c EXCEPT !.stage = g, !.now = S]
<1>1. calls' = [calls EXCEPT ![t] = k]
  BY Zenon
<1>2. /\ k \in Call
      /\ <<t, k.stage, k.set, k.now, k.sent, k.snap>>
           = <<t, g, c.set, S, c.sent, c.snap>>
  BY ONLY c \in Call, g \in Stages, S \in SUBSET Items DEF Call
<1> HIDE DEF k
<1>3. Becomes(t, k.stage, k.set, k.now, k.sent, k.snap)
  BY <1>1, <1>2, CallBecomes
<1>4. QED
  BY <1>2, <1>3, Zenon

(* A call's fields replaced: it goes on with a snapshot. *)
LEMMA CallSnapshots ==
  ASSUME calls \in [Callers -> Call], NEW t \in Callers, NEW c \in Call, c = calls[t],
         NEW g \in Stages, NEW x \in Session,
         calls' = [calls EXCEPT ![t].stage = g, ![t].snap = x]
  PROVE  Becomes(t, g, c.set, c.now, c.sent, x)
<1> DEFINE k == [c EXCEPT !.stage = g, !.snap = x]
<1>1. calls' = [calls EXCEPT ![t] = k]
  BY Zenon
<1>2. /\ k \in Call
      /\ <<t, k.stage, k.set, k.now, k.sent, k.snap>>
           = <<t, g, c.set, c.now, c.sent, x>>
  BY ONLY c \in Call, g \in Stages, x \in Session DEF Call
<1> HIDE DEF k
<1>3. Becomes(t, k.stage, k.set, k.now, k.sent, k.snap)
  BY <1>1, <1>2, CallBecomes
<1>4. QED
  BY <1>2, <1>3, Zenon

(* A call's fields replaced: it counts items as sent. *)
LEMMA CallSkips ==
  ASSUME calls \in [Callers -> Call], NEW t \in Callers, NEW c \in Call, c = calls[t],
         NEW S \in SUBSET Items,
         calls' = [calls EXCEPT ![t].set = @ \ S, ![t].sent = @ \cup S]
  PROVE  Becomes(t, c.stage, c.set \ S, c.now, c.sent \cup S, c.snap)
<1> DEFINE k == [c EXCEPT !.set = @ \ S, !.sent = @ \cup S]
<1>1. calls' = [calls EXCEPT ![t] = k]
  BY Zenon
<1>2. /\ k \in Call
      /\ <<t, k.stage, k.set, k.now, k.sent, k.snap>>
           = <<t, c.stage, c.set \ S, c.now, c.sent \cup S, c.snap>>
  BY ONLY c \in Call, S \in SUBSET Items DEF Call
<1> HIDE DEF k
<1>3. Becomes(t, k.stage, k.set, k.now, k.sent, k.snap)
  BY <1>1, <1>2, CallBecomes
<1>4. QED
  BY <1>2, <1>3, Zenon

(* A call's fields replaced: it takes items to submit. *)
LEMMA CallSends ==
  ASSUME calls \in [Callers -> Call], NEW t \in Callers, NEW c \in Call, c = calls[t],
         NEW g \in Stages, NEW S \in SUBSET Items, NEW R \in SUBSET Items,
         calls' = [calls EXCEPT ![t].set = @ \ S, ![t].stage = g, ![t].now = R]
  PROVE  Becomes(t, g, c.set \ S, R, c.sent, c.snap)
<1> DEFINE k == [c EXCEPT !.set = @ \ S, !.stage = g, !.now = R]
<1>1. calls' = [calls EXCEPT ![t] = k]
  BY Zenon
<1>2. /\ k \in Call
      /\ <<t, k.stage, k.set, k.now, k.sent, k.snap>>
           = <<t, g, c.set \ S, R, c.sent, c.snap>>
  BY ONLY c \in Call, g \in Stages, S \in SUBSET Items, R \in SUBSET Items DEF Call
<1> HIDE DEF k
<1>3. Becomes(t, k.stage, k.set, k.now, k.sent, k.snap)
  BY <1>1, <1>2, CallBecomes
<1>4. QED
  BY <1>2, <1>3, Zenon

(* Work state replaced for some items. *)
LEMMA WorkWith ==
  ASSUME live \in Session, NEW S, NEW state \in {"pending", "done"}
  PROVE  LET y == WithWork(S, state) IN
         /\ y \in Session /\ y.mailbox = live.mailbox /\ y.history = live.history
         /\ y.records = live.records /\ y.dangling = live.dangling
         /\ \A i \in Items : y.work[i] = IF i \in S THEN state ELSE live.work[i]
<1> DEFINE w == [i \in Items |-> IF i \in S THEN state ELSE live.work[i]]
<1>1. w \in [Items -> {"none", "pending", "done"}]
  BY SessionFields
<1>2. WithWork(S, state) = [live EXCEPT !.work = w]
  BY DEF WithWork
<1> HIDE DEF w
<1>3. LET y == [live EXCEPT !.work = w] IN
        /\ y \in Session /\ y.work = w /\ y.dangling = live.dangling
        /\ y.mailbox = live.mailbox /\ y.history = live.history /\ y.records = live.records
  BY <1>1 DEF Session
<1>4. QED
  BY <1>2, <1>3 DEF w

-----------------------------------------------------------------------------
(* What the calls do.                                                      *)

(* A fault is counted within its bound. *)
LEMMA FaultCounted ==
  ASSUME TypeOK, Fault
  PROVE  faults' = faults + 1 /\ faults' \in 0..MaxFaults
  BY BoundsAreNats DEF Fault, TypeOK

(* Wakes keep their types. *)
LEMMA WakeTyped ==
  ASSUME TypeOK, Wake \/ NoWake
  PROVE  wakes' \in Nat /\ stranded' \in BOOLEAN
<1>1. wakes \in Nat /\ stranded \in BOOLEAN
  BY Typed
<1>2. wakes' = wakes \/ wakes' = wakes + 1
  BY DEF Wake, NoWake
<1>3. stranded' = stranded \/ stranded' = FALSE
  BY DEF Wake, NoWake
<1>4. wakes' \in Nat
  BY ONLY <1>1, <1>2
<1>5. stranded' \in BOOLEAN
  BY ONLY <1>1, <1>3, Zenon
<1>6. QED
  BY ONLY <1>4, <1>5

(* A return clears the call. *)
LEMMA ReturnsEffect ==
  ASSUME TypeOK, NEW t \in Callers, Returns(t)
  PROVE  /\ Becomes(t, "idle", {}, {}, {}, Blank)
         /\ loading' \in BOOLEAN /\ wakes' \in Nat /\ stranded' \in BOOLEAN
<1>1. Becomes(t, "idle", {}, {}, {}, Blank)
  BY Typed, CallReturns DEF Returns
<1>2. wakes \in Nat /\ stranded \in BOOLEAN
  BY Typed
<1>3. loading' = FALSE /\ (wakes' = wakes + 1 \/ wakes' = wakes) /\ stranded' = stranded
  BY DEF Returns
<1>4. stranded' \in BOOLEAN
  BY ONLY <1>2, <1>3
<1>5. wakes' \in Nat
  BY ONLY <1>2, <1>3
<1>6. QED
  BY ONLY <1>1, <1>3, <1>4, <1>5

(* The installed candidate is the live and the stored session. *)
LEMMA InstallEffect ==
  ASSUME TypeOK, NEW S, NEW state \in {"pending", "done"}, Installs(WithWork(S, state))
  PROVE  /\ live' \in Session /\ live'.mailbox = live.mailbox
         /\ live'.history = live.history
         /\ live'.records = live.records /\ live'.dangling = live.dangling
         /\ \A i \in Items : live'.work[i] = IF i \in S THEN state ELSE live.work[i]
         /\ disk' = live' /\ faults' = faults
  BY WorkWith, Typed DEF Installs

(* What Commit does to the variables. *)
LEMMA CommitEffect ==
  ASSUME TypeOK, NEW t \in Callers, NEW i \in Items, Commit(t, i)
  PROVE  /\ TypeOK'
         /\ At(t, "idle") /\ tx = Free /\ Kind[i] # "input" /\ live.work[i] = "none"
         /\ turn' = turn /\ asked' = asked
         /\ \/ /\ Installs(WithWork({i}, "pending")) /\ tx' = t
               /\ LET c == calls[t] IN Becomes(t, "deliver", c.set, c.now, c.sent, c.snap)
            \/ /\ live' = live /\ disk' = disk /\ tx' = tx /\ calls' = calls
               /\ faults' = faults + 1
<1> USE DEF Commit
<1>1. PICK c \in Call : c = calls[t]
  BY Typed
<1>2. ASSUME Goes(t, "deliver") PROVE Becomes(t, "deliver", c.set, c.now, c.sent, c.snap)
  <2>1. calls' = [calls EXCEPT ![t].stage = "deliver"]
    BY <1>2 DEF Goes
  <2>2. "deliver" \in Stages /\ calls \in [Callers -> Call]
    BY Typed DEF Stages
  <2>3. QED
    BY <1>1, <2>1, <2>2, CallAtStage, Zenon
<1>3. wakes' \in Nat /\ stranded' \in BOOLEAN
  BY WakeTyped
<1>4. CASE Installs(WithWork({i}, "pending")) /\ tx' = t /\ Goes(t, "deliver")
  <2>1. live' \in Session /\ disk' = live' /\ faults' = faults
    BY <1>4, InstallEffect
  <2>2. Becomes(t, "deliver", c.set, c.now, c.sent, c.snap)
    BY <1>2, <1>4
  <2>3. TypeOK'
    BY <1>3, <1>4, <2>1, <2>2, Typed, TypedNext DEF Becomes
  <2>4. QED
    BY <1>1, <1>4, <2>2, <2>3 DEF CanCall
<1>5. CASE SaveFails /\ UNCHANGED <<tx, calls>>
  <2>1. faults' = faults + 1 /\ faults' \in 0..MaxFaults /\ live' = live /\ disk' = disk
    BY <1>5, FaultCounted DEF SaveFails
  <2>2. TypeOK'
    BY <1>3, <1>5, <2>1, Typed, TypedNext
  <2>3. QED
    BY <1>5, <2>1, <2>2 DEF CanCall
<1>6. QED
  BY <1>4, <1>5

(* Messages are added to the mailbox. *)
LEMMA MailboxGrows ==
  ASSUME NEW x \in Session, NEW S, NEW y, y = [x EXCEPT !.mailbox = PlusSet(@, S)]
  PROVE  /\ y \in Session /\ y.mailbox = PlusSet(x.mailbox, S) /\ y.work = x.work
         /\ y.records = x.records /\ y.history = x.history /\ y.dangling = x.dangling
<1> DEFINE b == PlusSet(x.mailbox, S)
<1>1. b \in Bag
  <2>1. x.mailbox \in Bag
    BY SessionFields
  <2>2. QED
    BY <2>1, PlusSetTyped
<1>2. y = [x EXCEPT !.mailbox = b]
  OBVIOUS
<1> HIDE DEF b
<1>3. /\ y \in Session /\ y.mailbox = b /\ y.work = x.work
      /\ y.records = x.records /\ y.history = x.history /\ y.dangling = x.dangling
  BY ONLY <1>1, <1>2, x \in Session DEF Session
<1>4. QED
  BY <1>3 DEF b

(* What Deliver does to the variables. *)
LEMMA DeliverEffect ==
  ASSUME TypeOK, NEW t \in Callers, Deliver(t)
  PROVE  /\ TypeOK'
         /\ At(t, "deliver") /\ disk' = disk /\ turn' = turn /\ asked' = asked
         /\ faults' = faults
         /\ live'.mailbox = PlusSet(live.mailbox, Pending("note")) /\ live'.work = live.work
         /\ live'.records = live.records /\ live'.history = live.history
         /\ live'.dangling = live.dangling
         /\ \/ /\ Pending("note") = {} /\ tx' = Free
               /\ LET c == calls[t] IN Becomes(t, "drain", c.set, c.now, c.sent, c.snap)
            \/ /\ tx' = tx
               /\ LET c == calls[t] IN
                  Becomes(t, "mark", Pending("note"), c.now, c.sent, c.snap)
<1>1. PICK c \in Call : c = calls[t]
  BY Typed
<1>2. /\ "drain" \in Stages /\ "mark" \in Stages /\ calls \in [Callers -> Call]
      /\ Pending("note") \in SUBSET Items
  BY Typed DEF Stages, Pending, Of
<1>3. /\ live' \in Session
      /\ live'.mailbox = PlusSet(live.mailbox, Pending("note")) /\ live'.work = live.work
      /\ live'.records = live.records /\ live'.history = live.history
      /\ live'.dangling = live.dangling
  <2>1. live' = [live EXCEPT !.mailbox = PlusSet(@, Pending("note"))]
    BY DEF Deliver
  <2>2. live \in Session
    BY Typed
  <2>3. QED
    BY <2>1, <2>2, MailboxGrows, ZenonT(60)
<1>4. wakes' \in Nat /\ stranded' \in BOOLEAN
  BY WakeTyped DEF Deliver
<1>5. CASE Pending("note") = {} /\ tx' = Free /\ Goes(t, "drain")
  <2>1. calls' = [calls EXCEPT ![t].stage = "drain"]
    BY <1>5 DEF Goes
  <2>2. Becomes(t, "drain", c.set, c.now, c.sent, c.snap)
    BY <1>1, <1>2, <2>1, CallAtStage, Zenon
  <2>3. TypeOK'
    BY <1>3, <1>4, <1>5, <2>2, Typed, TypedNext DEF Deliver, Becomes
  <2>4. QED
    BY <1>1, <1>3, <1>5, <2>2, <2>3 DEF Deliver
<1>6. CASE calls' = [calls EXCEPT ![t].set = Pending("note"), ![t].stage = "mark"] /\ tx' = tx
  <2>1. Becomes(t, "mark", Pending("note"), c.now, c.sent, c.snap)
    BY <1>1, <1>2, <1>6, CallTakes, Zenon
  <2> HIDE <1>6
  <2>2. tx' = tx
    BY <1>6
  <2>3. TypeOK'
    BY <1>3, <1>4, <2>1, <2>2, Typed, TypedNext DEF Deliver, Becomes
  <2>4. QED
    BY <1>1, <1>3, <2>1, <2>2, <2>3 DEF Deliver
<1>7. QED
  BY <1>5, <1>6 DEF Deliver

(* What Mark does to the variables. *)
LEMMA MarkEffect ==
  ASSUME TypeOK, NEW t \in Callers, Mark(t)
  PROVE  /\ TypeOK'
         /\ At(t, "mark") /\ turn' = turn /\ asked' = asked /\ tx' = Free
         /\ LET c == calls[t] IN Becomes(t, "drain", {}, c.now, c.sent, c.snap)
         /\ \/ Installs(WithWork(calls[t].set, "done"))
            \/ live' = live /\ disk' = disk /\ faults' = faults + 1
<1>1. PICK c \in Call : c = calls[t]
  BY Typed
<1>2. /\ "drain" \in Stages /\ calls \in [Callers -> Call] /\ {} \in SUBSET Items
  BY Typed DEF Stages
<1>3. calls' = [calls EXCEPT ![t].set = {}, ![t].stage = "drain"]
  BY DEF Mark
<1>4. Becomes(t, "drain", {}, c.now, c.sent, c.snap)
  BY <1>1, <1>2, <1>3, CallTakes, Zenon
<1>5. /\ At(t, "mark") /\ turn' = turn /\ asked' = asked /\ tx' = Free /\ loading' = loading
      /\ \/ Installs(WithWork(calls[t].set, "done")) /\ Wake
         \/ SaveFails /\ stranded' = TRUE /\ wakes' = wakes
  BY DEF Mark
<1> HIDE <1>3
<1>6. wakes' \in Nat /\ stranded' \in BOOLEAN
  <2>1. wakes \in Nat
    BY Typed
  <2>2. QED
    BY ONLY <1>5, <2>1, TypeOK, WakeTyped, Zenon
<1>7. CASE Installs(WithWork(calls[t].set, "done"))
  <2>1. live' \in Session /\ disk' = live' /\ faults' = faults
    BY <1>7, InstallEffect
  <2>2. TypeOK'
    BY ONLY <1>4, <1>5, <1>6, <2>1, TypeOK, Typed, TypedNext DEF Becomes
  <2>3. QED
    BY ONLY <1>1, <1>4, <1>5, <1>7, <2>2
<1>8. CASE SaveFails
  <2>1. faults' = faults + 1 /\ faults' \in 0..MaxFaults /\ live' = live /\ disk' = disk
    BY <1>8, FaultCounted DEF SaveFails
  <2>2. TypeOK'
    BY ONLY <1>4, <1>5, <1>6, <2>1, TypeOK, Typed, TypedNext DEF Becomes
  <2>3. QED
    BY ONLY <1>1, <1>4, <1>5, <2>1, <2>2
<1>9. QED
  BY ONLY <1>5, <1>7, <1>8

(* What Drain does to the variables. *)
LEMMA DrainEffect ==
  ASSUME TypeOK, NEW t \in Callers, Drain(t)
  PROVE  /\ TypeOK'
         /\ At(t, "drain") /\ live' = live /\ disk' = disk /\ tx' = tx /\ turn' = turn
         /\ asked' = asked /\ faults' = faults
         /\ \/ Becomes(t, "idle", {}, {}, {}, Blank)
            \/ LET c == calls[t] IN
               Becomes(t, "send", Pending("entry"), c.now, c.sent, c.snap)
<1>1. PICK c \in Call : c = calls[t]
  BY Typed
<1>2. /\ "send" \in Stages /\ calls \in [Callers -> Call] /\ Pending("entry") \in SUBSET Items
  BY Typed DEF Stages, Pending, Of
<1>3. /\ At(t, "drain") /\ live' = live /\ disk' = disk /\ tx' = tx /\ turn' = turn
      /\ asked' = asked /\ faults' = faults
  BY DEF Drain
<1>4. CASE Returns(t)
  <2>1. /\ Becomes(t, "idle", {}, {}, {}, Blank)
        /\ loading' \in BOOLEAN /\ wakes' \in Nat /\ stranded' \in BOOLEAN
    BY <1>4, ReturnsEffect
  <2>2. TypeOK'
    BY ONLY <1>3, <2>1, TypeOK, Typed, TypedNext DEF Becomes
  <2>3. QED
    BY ONLY <1>3, <2>1, <2>2
<1>5. CASE /\ calls' = [calls EXCEPT ![t].stage = "send", ![t].set = Pending("entry")]
           /\ NoWake /\ loading' = loading
  <2>1. Becomes(t, "send", Pending("entry"), c.now, c.sent, c.snap)
    BY <1>1, <1>2, <1>5, CallDrains, Zenon
  <2>2. wakes' \in Nat /\ stranded' \in BOOLEAN /\ loading' = loading
    BY ONLY <1>5, TypeOK, WakeTyped, Zenon
  <2>3. TypeOK'
    BY ONLY <1>3, <2>1, <2>2, TypeOK, Typed, TypedNext DEF Becomes
  <2>4. QED
    BY ONLY <1>1, <1>3, <2>1, <2>3
<1>6. QED
  BY <1>4, <1>5, Zenon DEF Drain

(* What Send does to the variables. *)
LEMMA SendEffect ==
  ASSUME TypeOK, NEW t \in Callers, NEW i \in Items, Send(t, i)
  PROVE  /\ TypeOK'
         /\ At(t, "send") /\ i \in calls[t].set /\ disk' = disk /\ tx' = tx /\ turn' = turn
         /\ asked' = asked /\ faults' = faults
         /\ live'.work = live.work /\ live'.mailbox = live.mailbox
         /\ live'.history = live.history /\ live'.dangling = live.dangling
         /\ LET c == calls[t] IN
            \/ /\ i \in live.records /\ live' = live
               /\ Becomes(t, c.stage, c.set \ {i}, c.now, c.sent \cup {i}, c.snap)
            \/ /\ i \notin live.records /\ live'.records = live.records \cup {i}
               /\ Becomes(t, "submit", c.set \ {i}, {i}, c.sent, c.snap)
<1>1. PICK c \in Call : c = calls[t]
  BY Typed
<1>2. /\ "submit" \in Stages /\ calls \in [Callers -> Call] /\ {i} \in SUBSET Items
      /\ live.records \cup {i} \in SUBSET Items /\ live \in Session
  BY Typed, SessionFields DEF Stages
<1>3. /\ At(t, "send") /\ i \in calls[t].set /\ disk' = disk /\ tx' = tx /\ turn' = turn
      /\ asked' = asked /\ faults' = faults /\ loading' = loading /\ NoWake
  BY DEF Send
<1>4. wakes' \in Nat /\ stranded' \in BOOLEAN
  BY ONLY <1>3, TypeOK, WakeTyped
<1>5. CASE /\ i \in live.records /\ live' = live
           /\ calls' = [calls EXCEPT ![t].set = @ \ {i}, ![t].sent = @ \cup {i}]
  <2>1. Becomes(t, c.stage, c.set \ {i}, c.now, c.sent \cup {i}, c.snap)
    BY ONLY <1>1, <1>2, <1>5, t \in Callers, CallSkips, Zenon
  <2>2. i \in live.records /\ live' = live
    BY <1>5
  <2>3. TypeOK'
    BY ONLY <1>3, <1>4, <2>1, <2>2, TypeOK, Typed, TypedNext DEF Becomes
  <2>4. QED
    BY ONLY <1>1, <1>3, <2>1, <2>2, <2>3
<1>6. CASE /\ i \notin live.records /\ live' = [live EXCEPT !.records = @ \cup {i}]
           /\ calls' = [calls EXCEPT ![t].set = @ \ {i}, ![t].stage = "submit",
                                     ![t].now = {i}]
  <2>1. Becomes(t, "submit", c.set \ {i}, {i}, c.sent, c.snap)
    BY ONLY <1>1, <1>2, <1>6, t \in Callers, CallSends, Zenon
  <2>2. live' = [live EXCEPT !.records = @ \cup {i}]
    BY <1>6
  <2>3. /\ live' \in Session /\ live'.records = live.records \cup {i}
        /\ live'.work = live.work
        /\ live'.mailbox = live.mailbox /\ live'.history = live.history
        /\ live'.dangling = live.dangling
    BY ONLY <1>2, <2>2, i \in Items, RecordsGrow, ZenonT(60)
  <2>4. i \notin live.records
    BY <1>6
  <2>5. TypeOK'
    BY ONLY <1>3, <1>4, <2>1, <2>3, TypeOK, Typed, TypedNext DEF Becomes
  <2>6. QED
    BY ONLY <1>1, <1>3, <2>1, <2>3, <2>4, <2>5
<1>7. QED
  BY <1>5, <1>6, Zenon DEF Send

(* What Submit does to the variables. *)
LEMMA SubmitEffect ==
  ASSUME TypeOK, NEW t \in Callers, Submit(t)
  PROVE  /\ TypeOK'
         /\ At(t, "submit") /\ disk' = disk /\ tx' = tx /\ turn' = turn
         /\ asked' = asked /\ faults' = faults
         /\ live'.mailbox = PlusSet(live.mailbox, calls[t].now) /\ live'.work = live.work
         /\ live'.records = live.records /\ live'.history = live.history
         /\ live'.dangling = live.dangling
         /\ LET c == calls[t] IN Becomes(t, "sent", c.set, c.now, c.sent, c.snap)
<1>1. PICK c \in Call : c = calls[t]
  BY Typed
<1>2. "sent" \in Stages /\ calls \in [Callers -> Call] /\ live \in Session
  BY Typed DEF Stages
<1>3. /\ At(t, "submit") /\ disk' = disk /\ tx' = tx /\ turn' = turn /\ loading' = loading
      /\ asked' = asked /\ faults' = faults /\ NoWake
  BY DEF Submit
<1>4. wakes' \in Nat /\ stranded' \in BOOLEAN
  BY ONLY <1>3, TypeOK, WakeTyped
<1>5. calls' = [calls EXCEPT ![t].stage = "sent"]
  BY DEF Submit, Goes
<1>6. live' = [live EXCEPT !.mailbox = PlusSet(@, calls[t].now)]
  BY DEF Submit
<1>7. Becomes(t, "sent", c.set, c.now, c.sent, c.snap)
  BY ONLY <1>1, <1>2, <1>5, t \in Callers, CallAtStage, Zenon
<1>8. /\ live' \in Session
      /\ live'.mailbox = PlusSet(live.mailbox, calls[t].now) /\ live'.work = live.work
      /\ live'.records = live.records /\ live'.history = live.history
      /\ live'.dangling = live.dangling
  BY ONLY <1>2, <1>6, MailboxGrows, ZenonT(60)
<1>9. TypeOK'
  BY ONLY <1>3, <1>4, <1>7, <1>8, TypeOK, Typed, TypedNext DEF Becomes
<1>10. QED
  BY ONLY <1>1, <1>3, <1>7, <1>8, <1>9

(* What Input does to the variables. *)
LEMMA InputEffect ==
  ASSUME TypeOK, NEW t \in Callers, NEW i \in Items, Input(t, i)
  PROVE  /\ TypeOK'
         /\ At(t, "idle") /\ Kind[i] = "input" /\ i \notin asked /\ asked' = asked \cup {i}
         /\ disk' = disk /\ tx' = tx /\ turn' = turn /\ faults' = faults
         /\ live'.mailbox = PlusSet(live.mailbox, {i}) /\ live'.work = live.work
         /\ live'.records = live.records /\ live'.history = live.history
         /\ live'.dangling = live.dangling
         /\ LET c == calls[t] IN Becomes(t, "sent", c.set, {i}, c.sent, c.snap)
<1>1. PICK c \in Call : c = calls[t]
  BY Typed
<1>2. /\ "sent" \in Stages /\ calls \in [Callers -> Call] /\ live \in Session
      /\ {i} \in SUBSET Items
  BY Typed DEF Stages
<1>3. /\ At(t, "idle") /\ disk' = disk /\ tx' = tx /\ turn' = turn /\ loading' = loading
      /\ faults' = faults /\ NoWake
      /\ Kind[i] = "input" /\ i \notin asked /\ asked' = asked \cup {i}
  BY DEF Input, CanCall
<1>4. wakes' \in Nat /\ stranded' \in BOOLEAN
  BY ONLY <1>3, TypeOK, WakeTyped
<1>5. calls' = [calls EXCEPT ![t].stage = "sent", ![t].now = {i}]
  BY DEF Input
<1>6. live' = [live EXCEPT !.mailbox = PlusSet(@, {i})]
  BY DEF Input
<1>7. Becomes(t, "sent", c.set, {i}, c.sent, c.snap)
  BY ONLY <1>1, <1>2, <1>5, t \in Callers, CallSubmitted, Zenon
<1>8. /\ live' \in Session
      /\ live'.mailbox = PlusSet(live.mailbox, {i}) /\ live'.work = live.work
      /\ live'.records = live.records /\ live'.history = live.history
      /\ live'.dangling = live.dangling
  BY ONLY <1>2, <1>6, MailboxGrows, ZenonT(60)
<1>9. asked' \subseteq Of("input")
  <2>1. asked \subseteq Of("input")
    BY Typed
  <2>2. QED
    BY ONLY <1>3, <2>1, i \in Items DEF Of
<1>10. TypeOK'
  BY ONLY <1>3, <1>4, <1>7, <1>8, <1>9, TypeOK, Typed, TypedNext DEF Becomes
<1>11. QED
  BY ONLY <1>1, <1>3, <1>7, <1>8, <1>10

(* What Snapshots does to the variables. *)
LEMMA SnapshotsEffect ==
  ASSUME TypeOK, NEW t \in Callers, NEW g \in Stages, Snapshots(t, g)
  PROVE  /\ TypeOK'
         /\ live' = live /\ disk' = disk /\ tx = Free /\ tx' = t /\ turn' = turn
         /\ asked' = asked /\ faults' = faults
         /\ LET c == calls[t] IN Becomes(t, g, c.set, c.now, c.sent, live)
<1>1. PICK c \in Call : c = calls[t]
  BY Typed
<1>2. calls \in [Callers -> Call] /\ live \in Session
  BY Typed DEF Stages
<1>3. /\ live' = live /\ disk' = disk /\ tx = Free /\ tx' = t /\ turn' = turn
      /\ asked' = asked /\ faults' = faults /\ loading' = loading /\ NoWake
  BY DEF Snapshots
<1>4. wakes' \in Nat /\ stranded' \in BOOLEAN
  BY ONLY <1>3, TypeOK, WakeTyped
<1>5. calls' = [calls EXCEPT ![t].stage = g, ![t].snap = live]
  BY DEF Snapshots
<1>6. Becomes(t, g, c.set, c.now, c.sent, live)
  BY ONLY <1>1, <1>2, <1>5, t \in Callers, g \in Stages, CallSnapshots, Zenon
<1>7. TypeOK'
  BY ONLY <1>3, <1>4, <1>6, TypeOK, Typed, TypedNext, t \in Callers DEF Becomes
<1>8. QED
  BY ONLY <1>1, <1>3, <1>6, <1>7

(* What SaveEnd does to the variables. *)
LEMMA SaveEndEffect ==
  ASSUME TypeOK, NEW t \in Callers, SaveEnd(t)
  PROVE  /\ TypeOK'
         /\ At(t, "save") /\ tx' = (IF tx = t THEN Free ELSE tx) /\ turn' = turn
         /\ asked' = asked /\ live' = live
         /\ Becomes(t, "idle", {}, {}, {}, Blank)
         /\ \/ disk' = calls[t].snap /\ faults' = faults
            \/ disk' = disk /\ faults' = faults + 1
<1>1. /\ Becomes(t, "idle", {}, {}, {}, Blank)
      /\ loading' \in BOOLEAN /\ wakes' \in Nat /\ stranded' \in BOOLEAN
  BY ReturnsEffect DEF SaveEnd
<1>2. /\ At(t, "save") /\ tx' = (IF tx = t THEN Free ELSE tx) /\ turn' = turn
      /\ asked' = asked /\ live' = live
  BY DEF SaveEnd, Unlocks, Writes, SaveFails
<1>3. \/ disk' = calls[t].snap /\ faults' = faults
      \/ disk' = disk /\ faults' = faults + 1 /\ faults' \in 0..MaxFaults
  BY FaultCounted DEF SaveEnd, Writes, SaveFails
<1>4. tx' \in Callers \cup {Free}
  BY ONLY <1>2, TypeOK, Typed
<1>5. TypeOK'
  BY ONLY <1>1, <1>2, <1>3, <1>4, TypeOK, Typed, TypedNext, t \in Callers DEF Becomes
<1>6. QED
  BY ONLY <1>1, <1>2, <1>3, <1>5

(* What Ack does to the variables. *)
LEMMA AckEffect ==
  ASSUME TypeOK, NEW t \in Callers, Ack(t)
  PROVE  /\ TypeOK'
         /\ At(t, "send") /\ tx' = tx /\ turn' = turn /\ asked' = asked
         /\ Becomes(t, "idle", {}, {}, {}, Blank)
         /\ \/ live' = live /\ disk' = disk /\ faults' \in {faults, faults + 1}
            \/ tx = Free /\ Installs(WithWork(calls[t].sent, "done"))
<1>1. /\ Becomes(t, "idle", {}, {}, {}, Blank)
      /\ loading' \in BOOLEAN /\ wakes' \in Nat /\ stranded' \in BOOLEAN
  BY ReturnsEffect DEF Ack
<1>2. At(t, "send") /\ tx' = tx /\ turn' = turn /\ asked' = asked
  BY DEF Ack
<1>3. CASE tx = Free /\ Installs(WithWork(calls[t].sent, "done"))
  <2>1. live' \in Session /\ disk' = live' /\ faults' = faults
    BY <1>3, InstallEffect
  <2>2. TypeOK'
    BY ONLY <1>1, <1>2, <2>1, TypeOK, Typed, TypedNext DEF Becomes
  <2>3. QED
    BY ONLY <1>1, <1>2, <1>3, <2>2
<1>4. CASE SaveFails
  <2>1. faults' = faults + 1 /\ faults' \in 0..MaxFaults /\ live' = live /\ disk' = disk
    BY <1>4, FaultCounted DEF SaveFails
  <2>2. TypeOK'
    BY ONLY <1>1, <1>2, <2>1, TypeOK, Typed, TypedNext DEF Becomes
  <2>3. QED
    BY ONLY <1>1, <1>2, <2>1, <2>2
<1>5. CASE UNCHANGED <<live, disk, faults>>
  <2>1. TypeOK'
    BY ONLY <1>1, <1>2, <1>5, TypeOK, Typed, TypedNext DEF Becomes
  <2>2. QED
    BY ONLY <1>1, <1>2, <1>5, <2>1
<1>6. QED
  BY <1>3, <1>4, <1>5 DEF Ack

(* What SentEnd does to the variables. *)
LEMMA SentEndEffect ==
  ASSUME TypeOK, NEW t \in Callers, SentEnd(t)
  PROVE  /\ TypeOK'
         /\ At(t, "sentsave") /\ tx' = (IF tx = t THEN Free ELSE tx) /\ turn' = turn
         /\ asked' = asked /\ live' = live
         /\ \E g \in {"idle", "send"}, S \in SUBSET (calls[t].now \ Of("input")) :
              LET c == calls[t] IN Becomes(t, g, c.set, {}, c.sent \cup S, Blank)
         /\ \/ disk' = calls[t].snap /\ faults' = faults
            \/ disk' = disk /\ faults' = faults + 1
<1>1. PICK c \in Call : c = calls[t]
  BY Typed
<1> DEFINE next == IF calls[t].now \subseteq Of("input") THEN "idle" ELSE "send"
           back == [calls[t] EXCEPT !.stage = next, !.now = {}, !.snap = Blank]
           S0 == calls[t].now \ Of("input")
<1>2. /\ At(t, "sentsave") /\ tx' = (IF tx = t THEN Free ELSE tx) /\ turn' = turn
      /\ asked' = asked /\ live' = live /\ loading' = loading
  BY DEF SentEnd, Unlocks, Writes, SaveFails
<1>3. \/ /\ disk' = calls[t].snap /\ faults' = faults /\ Wake
         /\ calls' = [calls EXCEPT ![t] = [back EXCEPT !.sent = @ \cup S0]]
      \/ /\ SaveFails /\ stranded' = TRUE /\ wakes' = wakes
         /\ calls' = [calls EXCEPT ![t] = back]
  BY DEF SentEnd, Writes
<1>4. /\ calls \in [Callers -> Call] /\ Blank \in Session /\ next \in Stages /\ wakes \in Nat
      /\ tx' \in Callers \cup {Free} /\ {} \in SUBSET Items
      /\ S0 \subseteq Items /\ next \in {"idle", "send"} /\ disk' \in Session
  <2>1. disk' \in Session
    BY ONLY <1>3, TypeOK, Typed, t \in Callers DEF SaveFails
  <2>2. QED
    BY ONLY <1>2, <2>1, TypeOK, Typed, Constants, t \in Callers DEF Stages
<1>5. /\ back \in Call /\ back.stage = next /\ back.set = c.set /\ back.now = {}
      /\ back.sent = c.sent /\ back.snap = Blank
  <2> HIDE DEF next
  <2>1. back = [c EXCEPT !.stage = next, !.now = {}, !.snap = Blank]
    BY <1>1
  <2> HIDE DEF back
  <2>2. QED
    BY ONLY <1>4, <2>1, c \in Call DEF Call
<1> HIDE DEF back, next
<1>6. wakes' \in Nat /\ stranded' \in BOOLEAN
  BY ONLY <1>3, <1>4, TypeOK, WakeTyped, Zenon
<1>7. CASE /\ disk' = calls[t].snap /\ faults' = faults
           /\ calls' = [calls EXCEPT ![t] = [back EXCEPT !.sent = @ \cup S0]]
  <2> DEFINE k == [back EXCEPT !.sent = @ \cup S0]
  <2>1. /\ k \in Call /\ k.stage = next /\ k.set = c.set /\ k.now = {}
        /\ k.sent = c.sent \cup S0 /\ k.snap = Blank
    BY ONLY <1>4, <1>5 DEF Call
  <2>2. calls' = [calls EXCEPT ![t] = k]
    BY <1>7
  <2> HIDE DEF k, S0
  <2>3. Becomes(t, next, c.set, {}, c.sent \cup S0, Blank)
    BY ONLY <1>4, <2>1, <2>2, CallBecomes, t \in Callers
  <2>4. TypeOK'
    BY ONLY <1>2, <1>4, <1>6, <1>7, <2>3, TypeOK, Typed, TypedNext DEF Becomes
  <2>5. S0 \in SUBSET (calls[t].now \ Of("input"))
    BY DEF S0
  <2>6. QED
    BY ONLY <1>1, <1>2, <1>4, <1>7, <2>3, <2>4, <2>5
<1>8. CASE SaveFails /\ calls' = [calls EXCEPT ![t] = back]
  <2>1. faults' = faults + 1 /\ faults' \in 0..MaxFaults /\ disk' = disk
    BY <1>8, FaultCounted DEF SaveFails
  <2>2. Becomes(t, next, c.set, {}, c.sent, Blank)
    BY ONLY <1>4, <1>5, <1>8, CallBecomes, t \in Callers
  <2>3. TypeOK'
    BY ONLY <1>2, <1>4, <1>6, <2>1, <2>2, TypeOK, Typed, TypedNext DEF Becomes
  <2>4. Becomes(t, next, c.set, {}, c.sent \cup {}, Blank)
    BY <2>2
  <2>5. QED
    BY ONLY <1>1, <1>2, <1>4, <2>1, <2>3, <2>4
<1>9. QED
  BY ONLY <1>3, <1>7, <1>8, Zenon

-----------------------------------------------------------------------------
(* What the turns do.                                                      *)

(* The repaired session differs in its dangling calls only. *)
LEMMA RepairedEffect ==
  ASSUME NEW x \in Session
  PROVE  LET y == Repaired(x) IN
         /\ y \in Session /\ y.dangling = FALSE /\ y.work = x.work
         /\ y.mailbox = x.mailbox /\ y.history = x.history /\ y.records = x.records
<1>1. Repaired(x) = [x EXCEPT !.dangling = FALSE] /\ FALSE \in BOOLEAN
  BY DEF Repaired
<1>2. QED
  BY <1>1, DanglingWith, Zenon

(* A new turn has its type. *)
LEMMA NewTurnTyped ==
  ASSUME NEW kind \in {"wake", "prompt"}, NEW p \in Path
  PROVE  LET n == NewTurn(kind, p) IN
         /\ n \in Turn /\ n.kind = kind /\ n.stage = "head" /\ n.keep = p
         /\ n.batch = Nothing
  BY Constants DEF NewTurn, Turn

(* The drained mailbox is in the trajectory. *)
LEMMA DrainedEffect ==
  ASSUME live \in Session
  PROVE  /\ Drained \in Session /\ Drained.history = Plus(live.history, live.mailbox)
         /\ Drained.mailbox = Nothing /\ Drained.work = live.work
         /\ Drained.records = live.records /\ Drained.dangling = live.dangling
<1> DEFINE h == Plus(live.history, live.mailbox)
<1>1. live.history \in Bag /\ live.mailbox \in Bag
  BY SessionFields
<1>2. h \in Bag /\ Nothing \in Bag
  BY <1>1, PlusTyped, Constants
<1>3. Drained = [live EXCEPT !.history = h, !.mailbox = Nothing]
  BY DEF Drained
<1> HIDE DEF h
<1>4. /\ Drained \in Session /\ Drained.history = h
      /\ Drained.mailbox = Nothing /\ Drained.work = live.work
      /\ Drained.records = live.records /\ Drained.dangling = live.dangling
  BY ONLY <1>2, <1>3, live \in Session DEF Session
<1>5. QED
  BY <1>4 DEF h

(* The rollback puts the turn's input back. *)
LEMMA RolledBackEffect ==
  ASSUME TypeOK
  PROVE  /\ RolledBack \in Session /\ RolledBack.history = turn.keep.history
         /\ RolledBack.mailbox = Plus(turn.batch, live.mailbox)
         /\ RolledBack.work = live.work /\ RolledBack.records = live.records
<1> DEFINE b == Plus(turn.batch, live.mailbox)  h == turn.keep.history
           d == turn.keep.dangling
<1>1. live.mailbox \in Bag /\ turn.batch \in Bag /\ h \in Bag /\ d \in BOOLEAN /\ live \in Session
  BY Typed, SessionFields
<1>2. b \in Bag
  BY <1>1, PlusTyped
<1>3. RolledBack = [live EXCEPT !.history = h, !.dangling = d, !.mailbox = b]
  BY DEF RolledBack
<1> HIDE DEF h, b, d
<1>4. /\ RolledBack \in Session /\ RolledBack.history = h
      /\ RolledBack.mailbox = b
      /\ RolledBack.work = live.work /\ RolledBack.records = live.records
  BY ONLY <1>1, <1>2, <1>3 DEF Session
<1>5. QED
  BY <1>4 DEF h, b

(* What WakeStart does to the variables. *)
LEMMA WakeStartEffect ==
  ASSUME TypeOK, WakeStart
  PROVE  /\ TypeOK'
         /\ disk' = disk /\ tx' = tx /\ calls' = calls /\ asked' = asked /\ faults' = faults
         /\ \/ live' = live /\ turn' = turn
            \/ /\ live' = Repaired(live) /\ turn = NoTurn
               /\ turn' = NewTurn("wake", Trajectory(live))
<1>1. /\ disk' = disk /\ tx' = tx /\ calls' = calls /\ asked' = asked /\ faults' = faults
      /\ loading' = loading /\ turn = NoTurn /\ wakes > 0 /\ wakes' = wakes - 1
      /\ \/ live' = live /\ turn' = turn /\ stranded' = stranded
         \/ /\ live' = Repaired(live) /\ stranded' = FALSE
            /\ turn' = NewTurn("wake", Trajectory(live))
  BY DEF WakeStart
<1>2. live' \in Session
  <2>1. live \in Session
    BY Typed
  <2>2. QED
    BY ONLY <1>1, <2>1, RepairedEffect
<1>3. turn' \in Turn
  <2>1. turn \in Turn /\ Trajectory(live) \in Path
    BY Typed, SessionFields
  <2>2. QED
    BY ONLY <1>1, <2>1, NewTurnTyped
<1>4. wakes' \in Nat
  <2>1. wakes \in Nat
    BY Typed
  <2>2. QED
    BY ONLY <1>1, <2>1
<1>5. stranded' \in BOOLEAN
  <2>1. stranded \in BOOLEAN
    BY Typed
  <2>2. QED
    BY ONLY <1>1, <2>1, Zenon
<1>6. TypeOK'
  BY ONLY <1>1, <1>2, <1>3, <1>4, <1>5, TypeOK, Typed, TypedNext
<1>7. QED
  BY ONLY <1>1, <1>6

(* What PromptStart does to the variables. *)
LEMMA PromptStartEffect ==
  ASSUME TypeOK, NEW i \in Items, PromptStart(i)
  PROVE  /\ TypeOK'
         /\ disk' = disk /\ tx' = tx /\ calls' = calls /\ faults' = faults
         /\ Kind[i] = "input" /\ i \notin asked /\ asked' = asked \cup {i}
         /\ live'.mailbox = PlusSet(live.mailbox, {i}) /\ live'.work = live.work
         /\ live'.records = live.records /\ live'.history = live.history
         /\ live'.dangling = FALSE /\ turn' = NewTurn("prompt", NoTurn.keep)
<1>1. /\ disk' = disk /\ tx' = tx /\ calls' = calls /\ faults' = faults
      /\ wakes' = wakes /\ loading' = loading /\ stranded' = FALSE
      /\ Kind[i] = "input" /\ i \notin asked /\ asked' = asked \cup {i}
      /\ turn' = NewTurn("prompt", NoTurn.keep)
  BY DEF PromptStart
<1>2. /\ Repaired(live) \in Session /\ Repaired(live).dangling = FALSE
      /\ Repaired(live).work = live.work /\ Repaired(live).mailbox = live.mailbox
      /\ Repaired(live).history = live.history /\ Repaired(live).records = live.records
  BY Typed, RepairedEffect
<1>3. live' = [Repaired(live) EXCEPT !.mailbox = PlusSet(@, {i})]
  BY DEF PromptStart
<1>4. /\ live' \in Session
      /\ live'.mailbox = PlusSet(live.mailbox, {i}) /\ live'.work = live.work
      /\ live'.records = live.records /\ live'.history = live.history
      /\ live'.dangling = FALSE
  <2>1. /\ live' \in Session
        /\ live'.mailbox = PlusSet(Repaired(live).mailbox, {i})
        /\ live'.work = Repaired(live).work
        /\ live'.records = Repaired(live).records /\ live'.history = Repaired(live).history
        /\ live'.dangling = Repaired(live).dangling
    BY ONLY <1>2, <1>3, MailboxGrows, ZenonT(60)
  <2>2. QED
    BY ONLY <1>2, <2>1
<1>5. turn' \in Turn
  <2>1. NoTurn.keep \in Path
    BY Constants DEF NoTurn
  <2>2. QED
    BY ONLY <1>1, <2>1, NewTurnTyped
<1>6. asked' \subseteq Of("input")
  <2>1. asked \subseteq Of("input")
    BY Typed
  <2>2. QED
    BY ONLY <1>1, <2>1, i \in Items DEF Of
<1>7. TypeOK'
  <2>1. stranded' \in BOOLEAN
    BY ONLY <1>1, Zenon
  <2>2. QED
    BY ONLY <1>1, <1>4, <1>5, <1>6, <2>1, TypeOK, Typed, TypedNext
<1>8. QED
  BY ONLY <1>1, <1>4, <1>7

(* The mailbox is drained into the trajectory, and a wake's turn remembers it. *)
LEMMA TakesEffect ==
  ASSUME TypeOK, Takes
  PROVE  /\ live' \in Session /\ live'.history = Plus(live.history, live.mailbox)
         /\ live'.mailbox = Nothing /\ live'.work = live.work
         /\ live'.records = live.records /\ live'.dangling = live.dangling
         /\ turn' \in Turn /\ turn'.kind = turn.kind /\ turn'.keep = turn.keep
         /\ turn'.stage \in {"generate", "head"}
         /\ turn.kind = "wake" => turn'.batch = Plus(turn.batch, live.mailbox)
<1> DEFINE b == IF turn.kind = "wake" THEN Plus(turn.batch, live.mailbox) ELSE turn.batch
           g == IF turn.stage = "head" THEN "generate" ELSE "head"
<1>1. live \in Session /\ turn \in Turn /\ turn.batch \in Bag /\ live.mailbox \in Bag
  BY Typed, SessionFields
<1>2. b \in Bag /\ g \in {"generate", "head"}
  BY <1>1, PlusTyped
<1>3. live' = Drained /\ turn' = [turn EXCEPT !.batch = b, !.stage = g]
  BY DEF Takes
<1> HIDE DEF b, g
<1>4. /\ turn' \in Turn /\ turn'.kind = turn.kind /\ turn'.keep = turn.keep
      /\ turn'.stage = g /\ turn'.batch = b
  BY ONLY <1>1, <1>2, <1>3 DEF Turn
<1>5. /\ live' \in Session /\ live'.history = Plus(live.history, live.mailbox)
      /\ live'.mailbox = Nothing /\ live'.work = live.work
      /\ live'.records = live.records /\ live'.dangling = live.dangling
  BY <1>1, <1>3, DrainedEffect
<1>6. QED
  BY ONLY <1>2, <1>4, <1>5 DEF b

(* What the provider produced is committed. *)
LEMMA CommitsEffect ==
  ASSUME TypeOK, NEW x \in Session, NEW g \in {"stopping", "tools", "head"}, Commits(x, g)
  PROVE  /\ live' = x /\ turn' \in Turn /\ turn'.kind = turn.kind /\ turn'.stage = g
         /\ turn'.batch = Nothing
         /\ turn.kind = "wake" => turn'.keep = Trajectory(x)
<1> DEFINE p == IF turn.kind = "wake" THEN Trajectory(x) ELSE turn.keep
<1>1. turn \in Turn /\ turn.keep \in Path /\ Nothing \in Bag /\ Trajectory(x) \in Path
  BY Typed, SessionFields, Constants
<1>2. p \in Path
  BY <1>1
<1>3. live' = x /\ turn' = [turn EXCEPT !.stage = g, !.batch = Nothing, !.keep = p]
  BY DEF Commits
<1> HIDE DEF p
<1>4. /\ turn' \in Turn /\ turn'.kind = turn.kind /\ turn'.stage = g
      /\ turn'.batch = Nothing /\ turn'.keep = p
  BY ONLY <1>1, <1>2, <1>3, g \in {"stopping", "tools", "head"} DEF Turn
<1>5. QED
  BY ONLY <1>3, <1>4 DEF p

\* A session with the same messages, work and records.
SameMessages(y, x) == /\ y \in Session /\ y.history = x.history /\ y.mailbox = x.mailbox
                      /\ y.work = x.work /\ y.records = x.records

(* What TurnGoesOn does to the variables. *)
LEMMA TurnGoesOnEffect ==
  ASSUME TypeOK, TurnGoesOn
  PROVE  /\ TypeOK'
         /\ disk' = disk /\ tx' = tx /\ calls' = calls /\ asked' = asked /\ faults' = faults
         /\ \/ Takes /\ turn.stage \in {"head", "stopping"}
            \/ /\ SameMessages(live', live) /\ turn'.kind = turn.kind
               /\ turn.stage \notin {"none", "leaving"}
               /\ \/ turn'.batch = turn.batch /\ turn'.keep = turn.keep
                  \/ turn'.batch = Nothing
                     /\ (turn.kind = "wake" => turn'.keep = Trajectory(live'))
               /\ \/ turn'.stage = "tools"
                  \/ turn'.stage = "head" /\ live'.dangling = FALSE
                  \/ turn.stage # "tools" /\ live' = live
            \/ turn' = NoTurn /\ live' = live
<1>1. /\ disk' = disk /\ tx' = tx /\ calls' = calls /\ asked' = asked /\ faults' = faults
      /\ loading' = loading /\ NoWake
  BY DEF TurnGoesOn
<1>2. wakes' \in Nat /\ stranded' \in BOOLEAN
  BY ONLY <1>1, TypeOK, WakeTyped
<1>3. live' \in Session /\ turn' \in Turn => TypeOK'
  BY ONLY <1>1, <1>2, TypeOK, Typed, TypedNext
<1>4. live \in Session /\ turn \in Turn
  BY Typed
<1>5. CASE Takes /\ turn.stage \in {"head", "stopping"}
  BY ONLY <1>1, <1>3, <1>5, TypeOK, TakesEffect
<1>6. CASE Generate
  <2>1. CASE Commits(live, "stopping")
    <3>1. /\ live' = live /\ turn' \in Turn /\ turn'.kind = turn.kind
          /\ turn'.stage = "stopping" /\ turn'.batch = Nothing
          /\ turn.kind = "wake" => turn'.keep = Trajectory(live)
      BY ONLY <1>4, <2>1, TypeOK, CommitsEffect
    <3>2. turn.stage = "generate"
      BY <1>6 DEF Generate
    <3>3. QED
      BY ONLY <1>1, <1>3, <1>4, <3>1, <3>2 DEF SameMessages
  <2>2. CASE Commits([live EXCEPT !.dangling = TRUE], "tools")
    <3> DEFINE x == [live EXCEPT !.dangling = TRUE]
    <3>1. /\ x \in Session /\ x.work = live.work /\ x.mailbox = live.mailbox
          /\ x.history = live.history /\ x.records = live.records
      BY ONLY <1>4 DEF Session
    <3>2. Commits(x, "tools")
      BY <2>2
    <3> HIDE DEF x
    <3>3. /\ live' = x /\ turn' \in Turn /\ turn'.kind = turn.kind
          /\ turn'.stage = "tools" /\ turn'.batch = Nothing
          /\ turn.kind = "wake" => turn'.keep = Trajectory(x)
      BY ONLY <3>1, <3>2, TypeOK, CommitsEffect
    <3>4. turn.stage = "generate"
      BY <1>6 DEF Generate
    <3>5. QED
      BY ONLY <1>1, <1>3, <3>1, <3>3, <3>4 DEF SameMessages
  <2>3. QED
    BY <1>6, <2>1, <2>2, Zenon DEF Generate
<1>7. CASE ToolsDone
  <2> DEFINE x == [live EXCEPT !.dangling = FALSE]
  <2>1. /\ x \in Session /\ x.work = live.work /\ x.mailbox = live.mailbox
        /\ x.history = live.history /\ x.records = live.records /\ x.dangling = FALSE
    BY ONLY <1>4 DEF Session
  <2>2. Commits(x, "head")
    BY <1>7 DEF ToolsDone
  <2> HIDE DEF x
  <2>3. /\ live' = x /\ turn' \in Turn /\ turn'.kind = turn.kind
        /\ turn'.stage = "head" /\ turn'.batch = Nothing
        /\ turn.kind = "wake" => turn'.keep = Trajectory(x)
    BY ONLY <2>1, <2>2, TypeOK, CommitsEffect
  <2>4. turn.stage = "tools"
    BY <1>7 DEF ToolsDone
  <2>5. QED
    BY ONLY <1>1, <1>3, <2>1, <2>3, <2>4 DEF SameMessages
<1>8. CASE Leaves /\ turn.stage = "stopping"
  <2>1. live' = live /\ turn' = [turn EXCEPT !.stage = "leaving"]
    BY <1>8 DEF Leaves
  <2>2. /\ turn' \in Turn /\ turn'.kind = turn.kind /\ turn'.stage = "leaving"
        /\ turn'.batch = turn.batch /\ turn'.keep = turn.keep
    BY ONLY <1>4, <2>1 DEF Turn
  <2>3. live' = live
    BY <2>1
  <2> HIDE <2>1
  <2>4. turn.stage = "stopping"
    BY <1>8
  <2>5. QED
    BY ONLY <1>1, <1>3, <1>4, <2>2, <2>3, <2>4 DEF SameMessages
<1>9. CASE turn' = NoTurn /\ live' = live
  <2>1. NoTurn \in Turn
    BY Constants
  <2>2. QED
    BY ONLY <1>1, <1>3, <1>4, <1>9, <2>1
<1>10. QED
  BY <1>5, <1>6, <1>7, <1>8, <1>9, Zenon DEF TurnGoesOn, Head, Stop, Leave

(* What TurnFails does to the variables. *)
LEMMA TurnFailsEffect ==
  ASSUME TypeOK, TurnFails
  PROVE  /\ TypeOK'
         /\ disk' = disk /\ tx' = tx /\ calls' = calls /\ asked' = asked
         /\ faults' = faults + 1 /\ turn' = NoTurn
         /\ live' = IF turn.kind = "wake" THEN RolledBack ELSE live
<1>1. /\ disk' = disk /\ tx' = tx /\ calls' = calls /\ asked' = asked
      /\ wakes' = wakes /\ loading' = loading /\ stranded' = TRUE /\ turn' = NoTurn
      /\ live' = IF turn.kind = "wake" THEN RolledBack ELSE live
  BY DEF TurnFails
<1>2. faults' = faults + 1 /\ faults' \in 0..MaxFaults
  BY FaultCounted DEF TurnFails
<1>3. live' \in Session /\ turn' \in Turn
  <2>1. live \in Session /\ RolledBack \in Session /\ NoTurn \in Turn
    BY Typed, RolledBackEffect, Constants
  <2>2. QED
    BY ONLY <1>1, <2>1
<1>4. stranded' \in BOOLEAN
  BY ONLY <1>1, Zenon
<1>5. TypeOK'
  BY ONLY <1>1, <1>2, <1>3, <1>4, TypeOK, Typed, TypedNext
<1>6. QED
  BY ONLY <1>1, <1>2, <1>5

(* What Crash does to the variables. *)
LEMMA CrashEffect ==
  ASSUME TypeOK, Crash
  PROVE  /\ TypeOK'
         /\ live' = Repaired(disk) /\ disk' = disk /\ asked' = asked /\ tx' = 1
         /\ faults' = faults + 1 /\ turn' = NoTurn
         /\ \A t \in Callers :
              /\ calls'[t].stage = IF t = 1 THEN "deliver" ELSE "idle"
              /\ calls'[t].set = {} /\ calls'[t].now = {} /\ calls'[t].sent = {}
              /\ calls'[t].snap = Blank
<1> DEFINE k == [IdleCall EXCEPT !.stage = "deliver"]
<1>1. /\ live' = Repaired(disk) /\ disk' = disk /\ asked' = asked /\ tx' = 1
      /\ calls' = [t \in Callers |-> IF t = 1 THEN k ELSE IdleCall]
      /\ turn' = NoTurn /\ wakes' = 0 /\ loading' = TRUE /\ stranded' = FALSE
  BY DEF Crash
<1>2. faults' = faults + 1 /\ faults' \in 0..MaxFaults
  BY FaultCounted DEF Crash
<1>3. /\ IdleCall \in Call /\ IdleCall.stage = "idle" /\ IdleCall.set = {}
      /\ IdleCall.now = {} /\ IdleCall.sent = {} /\ IdleCall.snap = Blank
  BY Constants DEF IdleCall
<1>4. /\ k \in Call /\ k.stage = "deliver" /\ k.set = {} /\ k.now = {} /\ k.sent = {}
      /\ k.snap = Blank
  BY Constants DEF IdleCall, Call, Stages
<1> HIDE DEF k
<1>5. live' \in Session /\ turn' \in Turn
  <2>1. disk \in Session /\ NoTurn \in Turn
    BY Typed, Constants
  <2>2. QED
    BY ONLY <1>1, <2>1, RepairedEffect
<1>6. stranded' \in BOOLEAN /\ loading' \in BOOLEAN
  BY ONLY <1>1, Zenon
<1>7. 1 \in Callers
  BY BoundsAreNats DEF Callers
<1>8. calls' \in [Callers -> Call]
  BY ONLY <1>1, <1>3, <1>4
<1>9. TypeOK'
  BY ONLY <1>1, <1>2, <1>5, <1>6, <1>7, <1>8, TypeOK, Typed, TypedNext
<1>10. QED
  BY ONLY <1>1, <1>2, <1>3, <1>4, <1>9

-----------------------------------------------------------------------------
(* Copies of messages.                                                     *)

(* Copies are counted in Nat. *)
LEMMA CopiesTyped ==
  ASSUME NEW x \in Session, NEW i \in Items
  PROVE  Copies(x, i) \in Nat
  BY SessionFields DEF Copies, Bag

\* y has the messages of x, and its work and records.
Carries(x, y) == /\ \A i \in Items : Copies(y, i) = Copies(x, i)
                 /\ y.work = x.work /\ y.records = x.records

(* A session with the same mailbox and trajectory has the same copies. *)
LEMMA CopiesSame ==
  ASSUME NEW x, NEW y, y.mailbox = x.mailbox, y.history = x.history
  PROVE  \A i \in Items : Copies(y, i) = Copies(x, i)
  BY DEF Copies

(* A submission makes one copy of each message. *)
LEMMA CopiesGrow ==
  ASSUME NEW x \in Session, NEW y, NEW S,
         y.mailbox = PlusSet(x.mailbox, S), y.history = x.history
  PROVE  \A i \in Items : Copies(y, i) = IF i \in S THEN Copies(x, i) + 1 ELSE Copies(x, i)
<1> TAKE i \in Items
<1>1. x.mailbox \in Bag /\ x.history \in Bag
  BY SessionFields
<1>2. PlusSet(x.mailbox, S)[i] = IF i \in S THEN x.mailbox[i] + 1 ELSE x.mailbox[i]
  BY <1>1, PlusSetTyped
<1>3. x.mailbox[i] \in Nat /\ x.history[i] \in Nat
  BY <1>1 DEF Bag
<1>4. QED
  BY <1>2, <1>3 DEF Copies

(* Draining moves the messages. *)
LEMMA CopiesDrained ==
  ASSUME TypeOK, Takes
  PROVE  Carries(live, live')
<1>1. /\ live'.history = Plus(live.history, live.mailbox) /\ live'.mailbox = Nothing
      /\ live'.work = live.work /\ live'.records = live.records
  BY TakesEffect
<1>2. live.mailbox \in Bag /\ live.history \in Bag
  BY Typed, SessionFields
<1>3. ASSUME NEW i \in Items PROVE Copies(live', i) = Copies(live, i)
  <2>1. /\ live'.history[i] = live.history[i] + live.mailbox[i] /\ live'.mailbox[i] = 0
        /\ live.history[i] \in Nat /\ live.mailbox[i] \in Nat
    BY <1>1, <1>2, PlusTyped DEF Nothing, Bag
  <2>2. QED
    BY <2>1 DEF Copies
<1>4. QED
  BY <1>1, <1>3 DEF Carries

(* A rollback moves them back. *)
LEMMA CopiesRolledBack ==
  ASSUME TypeOK, RollsBack, turn.kind = "wake", live' = RolledBack
  PROVE  Carries(live, live')
<1>1. /\ live'.history = turn.keep.history /\ live'.mailbox = Plus(turn.batch, live.mailbox)
      /\ live'.work = live.work /\ live'.records = live.records
  BY RolledBackEffect
<1>2. live.mailbox \in Bag /\ turn.batch \in Bag /\ turn.keep.history \in Bag
  BY Typed, SessionFields
<1>3. ASSUME NEW i \in Items PROVE Copies(live', i) = Copies(live, i)
  <2>1. /\ live'.history[i] = turn.keep.history[i]
        /\ live'.mailbox[i] = turn.batch[i] + live.mailbox[i]
        /\ live.mailbox[i] \in Nat /\ turn.batch[i] \in Nat /\ turn.keep.history[i] \in Nat
    BY <1>1, <1>2, PlusTyped DEF Bag
  <2>2. live.history[i] = turn.keep.history[i] + turn.batch[i]
    BY DEF RollsBack
  <2>3. QED
    BY <2>1, <2>2 DEF Copies
<1>4. QED
  BY <1>1, <1>3 DEF Carries

(* Invariants of a session that one with the same messages inherits. *)
LEMMA KeepsCarried ==
  ASSUME NEW x, NEW y, Carries(x, y), KeepsDelivered(x)
  PROVE  KeepsDelivered(y)
  BY DEF Carries, KeepsDelivered, Of

(* The counts of copies too, with more faults allowed. *)
LEMMA CountedCarried ==
  ASSUME NEW x \in Session, NEW y, Carries(x, y), NEW a, NEW f \in Nat, NEW g \in Nat, f <= g,
         Counted(x, a, f)
  PROVE  Counted(y, a, g)
<1> SUFFICES ASSUME NEW i \in Items PROVE CountedOf(y, i, a, g)
  BY DEF Counted
<1>1. Copies(y, i) = Copies(x, i) /\ Copies(x, i) \in Nat /\ y.work = x.work
      /\ y.records = x.records
  BY CopiesTyped DEF Carries
<1>2. CountedOf(x, i, a, f)
  BY DEF Counted
<1>3. QED
  BY <1>1, <1>2 DEF CountedOf

(* Blank has no messages. *)
LEMMA BlankCounted ==
  ASSUME NEW a, NEW f \in Nat
  PROVE  KeepsDelivered(Blank) /\ Counted(Blank, a, f)
<1>1. ASSUME NEW i \in Items
      PROVE Copies(Blank, i) = 0 /\ Blank.work[i] = "none" /\ Blank.records = {}
  BY DEF Copies, Blank, Nothing
<1>2. KeepsDelivered(Blank)
  BY <1>1 DEF KeepsDelivered, Of
<1>3. ASSUME NEW i \in Items PROVE CountedOf(Blank, i, a, f)
  BY <1>1 DEF CountedOf
<1>4. QED
  BY <1>2, <1>3 DEF Counted

(* A step that moves messages between mailbox and trajectory only. *)
LEMMA MessagesMoved ==
  ASSUME TypeOK, TypeOK', Kept, CopiesCounted,
         Carries(live, live'), disk' = disk, calls' = calls, asked' = asked,
         faults' \in {faults, faults + 1}
  PROVE  Kept' /\ CopiesCounted'
<1>1. /\ live \in Session /\ disk \in Session /\ faults \in Nat /\ faults' \in Nat
      /\ faults <= faults'
      /\ \A t \in Callers : calls[t].snap \in Session /\ calls[t].set \subseteq Items
                            /\ calls[t].now \subseteq Items
  BY Typed
<1>2. Kept'
  BY <1>1, KeepsCarried DEF Kept, Carries, At
<1>3. Counted(live', asked', faults')
  BY <1>1, CountedCarried DEF CopiesCounted
<1>4. ASSUME NEW x \in Session, Counted(x, asked, faults) PROVE Counted(x, asked', faults')
  BY <1>1, <1>4, CountedCarried DEF Carries
<1>5. PendingCounted'
  <2> SUFFICES ASSUME NEW i \in Of("note"), live'.work[i] = "pending",
                      \A t \in Callers : At(t, "mark")' => i \notin calls'[t].set
               PROVE  Copies(live', i) <= faults'
    BY DEF PendingCounted
  <2>1. i \in Items /\ live.work[i] = "pending" /\ Copies(live', i) = Copies(live, i)
    BY DEF Of, Carries
  <2>2. \A t \in Callers : At(t, "mark") => i \notin calls[t].set
    BY DEF At
  <2>3. Copies(live, i) <= faults /\ Copies(live, i) \in Nat
    BY <1>1, <2>1, <2>2, CopiesTyped DEF CopiesCounted, PendingCounted
  <2>4. QED
    BY <1>1, <2>1, <2>3
<1>6. Submitting'
  BY <1>1 DEF CopiesCounted, Submitting, At, Carries
<1>7. QED
  BY <1>1, <1>2, <1>3, <1>4, <1>5, <1>6 DEF CopiesCounted

(* A step of a call other than a commit, a submission or a mark: messages stay,  *)
(* and the file keeps or becomes one of the sessions known.                       *)
LEMMA CallSteps ==
  ASSUME TypeOK, TypeOK', Kept, CopiesCounted, NEW t \in Callers,
         NEW g \in Stages \ {"mark", "submit"}, NEW S, NEW N, NEW R,
         NEW x \in {calls[t].snap, live, Blank}, Becomes(t, g, S, N, R, x),
         Carries(live, live'), disk' \in {disk, calls[t].snap, live'}, asked' = asked,
         faults' \in {faults, faults + 1}, ~At(t, "mark") \/ faults' = faults + 1
  PROVE  Kept' /\ CopiesCounted'
<1>1. /\ live \in Session /\ disk \in Session /\ faults \in Nat /\ faults' \in Nat
      /\ faults <= faults'
      /\ \A u \in Callers : calls[u].snap \in Session /\ calls[u].set \subseteq Items
                            /\ calls[u].now \subseteq Items
  BY Typed
<1>2. \A u \in Callers : calls'[u].snap \in {calls[u].snap, live, Blank}
  BY DEF Becomes
<1>3. KeepsDelivered(live')
  BY KeepsCarried DEF Kept
<1>4. \A u \in Callers : KeepsDelivered(calls'[u].snap)
  BY <1>1, <1>2, BlankCounted DEF Kept
<1>5. Kept'
  <2>1. KeepsDelivered(disk')
    BY <1>3 DEF Kept
  <2>2. \A u \in Callers : At(u, "mark")' => At(u, "mark") /\ calls'[u].set = calls[u].set
    BY DEF At, Becomes
  <2>3. \A u \in Callers : At(u, "mark")' => \A i \in calls'[u].set : Copies(live', i) > 0
    BY <1>1, <2>2 DEF Kept, Carries
  <2>4. QED
    BY <1>3, <1>4, <2>1, <2>3 DEF Kept
<1>6. Counted(live', asked', faults')
  BY <1>1, CountedCarried DEF CopiesCounted
<1>7. ASSUME NEW y \in Session, Counted(y, asked, faults) PROVE Counted(y, asked', faults')
  BY <1>1, <1>7, CountedCarried DEF Carries
<1>8. Counted(disk', asked', faults')
  BY <1>1, <1>6, <1>7 DEF CopiesCounted
<1>9. \A u \in Callers : Counted(calls'[u].snap, asked', faults')
  BY <1>1, <1>2, <1>7, BlankCounted DEF CopiesCounted
<1>10. PendingCounted'
  <2> SUFFICES ASSUME NEW i \in Of("note"), live'.work[i] = "pending",
                      \A u \in Callers : At(u, "mark")' => i \notin calls'[u].set
               PROVE  Copies(live', i) <= faults'
    BY DEF PendingCounted
  <2>1. i \in Items /\ live.work[i] = "pending" /\ Copies(live', i) = Copies(live, i)
    BY DEF Of, Carries
  <2>2. Copies(live, i) \in Nat /\ Copies(live, i) <= 1 + faults
    BY <1>1, <2>1, CopiesTyped DEF CopiesCounted, Counted, CountedOf
  <2>3. CASE faults' = faults + 1
    BY <1>1, <2>1, <2>2, <2>3
  <2>4. CASE ~At(t, "mark")
    <3>1. \A u \in Callers : At(u, "mark") => i \notin calls[u].set
      BY <2>4 DEF At, Becomes
    <3>2. QED
      BY <1>1, <2>1, <2>2, <3>1 DEF CopiesCounted, PendingCounted
  <2>5. QED
    BY <2>3, <2>4
<1>11. Submitting'
  <2>1. \A u \in Callers : At(u, "submit")' => At(u, "submit") /\ calls'[u].now = calls[u].now
    BY DEF At, Becomes
  <2>2. QED
    BY <1>1, <2>1 DEF CopiesCounted, Submitting, Carries
<1>12. QED
  BY <1>5, <1>6, <1>8, <1>9, <1>10, <1>11 DEF CopiesCounted

\* What holds of calls and their lock.
Protocol == LockIsHeld /\ Carried /\ Stored

(* The invariants of the turn outlive the steps of the calls. *)
LEMMA TurnStays ==
  ASSUME RollsBack, Answered, turn' = turn, live'.history = live.history,
         live'.dangling = live.dangling
  PROVE  RollsBack' /\ Answered'
  BY DEF RollsBack, Answered

(* A commit starts without a copy of its note. *)
LEMMA CommitKeeps ==
  ASSUME IInv, NEW t \in Callers, NEW i \in Items, Commit(t, i)
  PROVE  IInv'
<1>1. /\ TypeOK' /\ TypeOK
      /\ At(t, "idle") /\ tx = Free /\ Kind[i] # "input" /\ live.work[i] = "none"
      /\ turn' = turn /\ asked' = asked
      /\ \/ /\ Installs(WithWork({i}, "pending")) /\ tx' = t
            /\ LET c == calls[t] IN Becomes(t, "deliver", c.set, c.now, c.sent, c.snap)
         \/ /\ live' = live /\ disk' = disk /\ tx' = tx /\ calls' = calls
            /\ faults' = faults + 1
  BY CommitEffect DEF IInv
<1>2. CASE /\ Installs(WithWork({i}, "pending")) /\ tx' = t
           /\ LET c == calls[t] IN Becomes(t, "deliver", c.set, c.now, c.sent, c.snap)
  <2>1. /\ live' \in Session /\ live'.mailbox = live.mailbox
        /\ live'.history = live.history
        /\ live'.records = live.records /\ live'.dangling = live.dangling
        /\ \A j \in Items : live'.work[j] = IF j \in {i} THEN "pending" ELSE live.work[j]
        /\ disk' = live' /\ faults' = faults
    BY <1>1, <1>2, InstallEffect
  <2>2. \A j \in Items : Copies(live', j) = Copies(live, j) /\ Copies(live, j) \in Nat
    BY <1>1, <2>1, CopiesSame, CopiesTyped, Typed
  <2>3. Protocol'
    BY <1>1, <1>2, <2>1
       DEF IInv, Protocol, LockIsHeld, Carried, Stored, Holding, At, Becomes, Callers, Free
  <2>4. Kept'
    <3>1. KeepsDelivered(live')
      BY <1>1, <2>1, <2>2 DEF IInv, Kept, KeepsDelivered, Of
    <3>2. \A u \in Callers : /\ calls'[u].snap = calls[u].snap
                             /\ At(u, "mark")' => At(u, "mark") /\ calls'[u].set = calls[u].set
      BY <1>1, <1>2 DEF At, Becomes
    <3>3. \A u \in Callers : At(u, "mark")' => \A j \in calls'[u].set : Copies(live', j) > 0
      BY <1>1, <2>2, <3>2, Typed DEF IInv, Kept
    <3>4. QED
      BY <2>1, <3>1, <3>2, <3>3 DEF IInv, Kept
  <2>5. Counted(live', asked', faults')
    BY <1>1, <2>1, <2>2 DEF IInv, CopiesCounted, Counted, CountedOf
  <2>6. PendingCounted'
    <3> SUFFICES ASSUME NEW j \in Of("note"), live'.work[j] = "pending",
                        \A u \in Callers : At(u, "mark")' => j \notin calls'[u].set
                 PROVE  Copies(live', j) <= faults'
      BY DEF PendingCounted
    <3>1. j \in Items /\ Kind[j] = "note" /\ faults \in Nat
      BY <1>1, Typed DEF Of
    <3>2. CASE j = i
      <4>1. Copies(live, i) = 0
        BY <1>1, <3>1, <3>2 DEF IInv, CopiesCounted, Counted, CountedOf
      <4>2. QED
        BY <2>1, <2>2, <3>1, <3>2, <4>1
    <3>3. CASE j # i
      <4>1. live.work[j] = "pending"
        BY <2>1, <3>1, <3>3
      <4>2. \A u \in Callers : At(u, "mark") => j \notin calls[u].set
        BY <1>1, <1>2 DEF At, Becomes
      <4>3. Copies(live, j) <= faults
        BY <4>1, <4>2 DEF IInv, CopiesCounted, PendingCounted
      <4>4. QED
        BY <2>1, <2>2, <3>1, <4>3
    <3>4. QED
      BY <3>2, <3>3
  <2>7. Submitting'
    BY <1>1, <1>2, <2>1, <2>2, Typed DEF IInv, CopiesCounted, Submitting, At, Becomes
  <2>8. CopiesCounted'
    BY <1>1, <1>2, <2>1, <2>5, <2>6, <2>7 DEF IInv, CopiesCounted, Becomes
  <2>9. QED
    BY <1>1, <2>1, <2>3, <2>4, <2>8, TurnStays DEF IInv, Protocol
<1>3. CASE /\ live' = live /\ disk' = disk /\ tx' = tx /\ calls' = calls
           /\ faults' = faults + 1
  <2>1. Kept' /\ CopiesCounted'
    BY <1>1, <1>3, MessagesMoved DEF IInv, Carries
  <2>2. Protocol'
    BY <1>3 DEF IInv, Protocol, LockIsHeld, Carried, Stored, At
  <2>3. QED
    BY <1>1, <1>3, <2>1, <2>2, TurnStays DEF IInv, Protocol
<1>4. QED
  BY ONLY <1>1, <1>2, <1>3

(* Delivering adds a copy of each pending note, which its call then marks. *)
LEMMA DeliverKeeps ==
  ASSUME IInv, NEW t \in Callers, Deliver(t)
  PROVE  IInv'
<1> DEFINE P == Pending("note")
<1>1. /\ TypeOK' /\ TypeOK
      /\ At(t, "deliver") /\ disk' = disk /\ turn' = turn /\ asked' = asked
      /\ faults' = faults
      /\ live'.mailbox = PlusSet(live.mailbox, P) /\ live'.work = live.work
      /\ live'.records = live.records /\ live'.history = live.history
      /\ live'.dangling = live.dangling
      /\ \/ /\ P = {} /\ tx' = Free
            /\ LET c == calls[t] IN Becomes(t, "drain", c.set, c.now, c.sent, c.snap)
         \/ /\ tx' = tx
            /\ LET c == calls[t] IN Becomes(t, "mark", P, c.now, c.sent, c.snap)
  BY DeliverEffect DEF IInv
<1>2. /\ live \in Session /\ live' \in Session /\ faults \in Nat
      /\ \A u \in Callers : calls[u].set \subseteq Items /\ calls[u].now \subseteq Items
  <2>1. live' \in Session
    BY <1>1 DEF TypeOK
  <2>2. QED
    BY <1>1, <2>1, Typed
<1>3. \A i \in Items : /\ i \in P <=> Kind[i] = "note" /\ live.work[i] = "pending"
                       /\ Copies(live', i) = IF i \in P THEN Copies(live, i) + 1
                                                        ELSE Copies(live, i)
                       /\ Copies(live, i) \in Nat
  <2>1. \A i \in Items : Copies(live', i) = IF i \in P THEN Copies(live, i) + 1
                                                        ELSE Copies(live, i)
    BY <1>1, <1>2, CopiesGrow
  <2>2. \A i \in Items : i \in P <=> Kind[i] = "note" /\ live.work[i] = "pending"
    BY DEF Pending, Of
  <2>3. QED
    BY <1>2, <2>1, <2>2, CopiesTyped
<1>4. P \subseteq Of("note") /\ P \subseteq Items
  BY DEF Pending, Of
<1>5. tx = t /\ \A u \in Callers : u # t => calls[u].stage \notin Holding
  BY <1>1 DEF IInv, LockIsHeld, Holding, At
<1>6. \A u \in Callers : /\ calls'[u].snap = calls[u].snap /\ calls'[u].now = calls[u].now
                         /\ calls'[u].sent = calls[u].sent
                         /\ u # t => calls'[u] = calls[u]
  BY <1>1 DEF Becomes
<1>7. \A u \in Callers : /\ At(u, "mark")' => u = t /\ calls'[u].set = P
                         /\ At(u, "submit")' => At(u, "submit")
                         /\ ~At(t, "mark")' => P = {}
  BY <1>1, <1>5, <1>6 DEF At, Becomes, Holding
<1> HIDE DEF P
<1>8. Protocol'
  <2>1. LockIsHeld'
    BY <1>1, <1>5 DEF IInv, LockIsHeld, Holding, At, Becomes, Callers, Free
  <2>2. Carried'
    BY <1>1, <1>4 DEF IInv, Carried, At, Becomes
  <2>3. Stored'
    BY <1>1, <1>6 DEF IInv, Stored, Becomes
  <2>4. QED
    BY <2>1, <2>2, <2>3 DEF Protocol
<1>9. Kept'
  <2>1. KeepsDelivered(live')
    BY <1>1, <1>3 DEF IInv, Kept, KeepsDelivered, Of
  <2>2. \A u \in Callers : At(u, "mark")' => \A i \in calls'[u].set : Copies(live', i) > 0
    BY <1>3, <1>4, <1>7
  <2>3. QED
    BY <1>1, <1>6, <2>1, <2>2 DEF IInv, Kept
<1>10. \A i \in P : Copies(live, i) <= faults
  <2> SUFFICES ASSUME NEW i \in P PROVE Copies(live, i) <= faults
    OBVIOUS
  <2>1. i \in Of("note") /\ live.work[i] = "pending"
    BY <1>3, <1>4
  <2>2. \A u \in Callers : ~At(u, "mark")
    BY <1>1, <1>5 DEF At, Holding
  <2>3. QED
    BY <2>1, <2>2 DEF IInv, CopiesCounted, PendingCounted
<1>11. Counted(live', asked', faults')
  <2> SUFFICES ASSUME NEW i \in Items PROVE CountedOf(live', i, asked', faults')
    BY DEF Counted
  <2>1. CountedOf(live, i, asked, faults)
    BY DEF IInv, CopiesCounted, Counted
  <2>2. CASE i \in P
    BY <1>1, <1>2, <1>3, <1>10, <2>2 DEF CountedOf
  <2>3. CASE i \notin P
    BY <1>1, <1>2, <1>3, <2>1, <2>3 DEF CountedOf
  <2>4. QED
    BY <2>2, <2>3
<1>12. PendingCounted'
  <2> SUFFICES ASSUME NEW i \in Of("note"), live'.work[i] = "pending",
                      \A u \in Callers : At(u, "mark")' => i \notin calls'[u].set
               PROVE  FALSE
    BY DEF PendingCounted
  <2>1. i \in P
    BY <1>1, <1>3 DEF Of
  <2>2. QED
    BY <1>7, <2>1
<1>13. Submitting'
  <2>1. \A u \in Callers : At(u, "submit")' => calls'[u].now \cap P = {}
    BY <1>4, <1>6, <1>7 DEF IInv, Carried, Of
  <2>2. QED
    BY <1>1, <1>2, <1>3, <1>6, <1>7, <2>1 DEF IInv, CopiesCounted, Submitting
<1>14. CopiesCounted'
  BY <1>1, <1>6, <1>11, <1>12, <1>13 DEF IInv, CopiesCounted
<1>15. QED
  BY <1>1, <1>8, <1>9, <1>14, TurnStays DEF IInv, Protocol

(* Marked notes have a copy; a mark that fails is a fault. *)
LEMMA MarkKeeps ==
  ASSUME IInv, NEW t \in Callers, Mark(t)
  PROVE  IInv'
<1>1. /\ TypeOK' /\ TypeOK
      /\ At(t, "mark") /\ turn' = turn /\ asked' = asked /\ tx' = Free
      /\ LET c == calls[t] IN Becomes(t, "drain", {}, c.now, c.sent, c.snap)
      /\ \/ Installs(WithWork(calls[t].set, "done"))
         \/ live' = live /\ disk' = disk /\ faults' = faults + 1
  BY MarkEffect DEF IInv
<1>2. tx = t /\ \A u \in Callers : u # t => calls[u].stage \notin Holding
  BY <1>1 DEF IInv, LockIsHeld, Holding, At
<1>3. LockIsHeld' /\ Carried'
  BY <1>1, <1>2 DEF IInv, LockIsHeld, Carried, Holding, At, Becomes, Callers, Free
<1>4. \A u \in Callers : /\ calls'[u].snap = calls[u].snap /\ calls'[u].now = calls[u].now
                         /\ calls'[u].stage \notin Holding
                         /\ At(u, "submit")' => At(u, "submit")
  BY <1>1, <1>2 DEF Becomes, Holding, At
<1>5. CASE live' = live /\ disk' = disk /\ faults' = faults + 1
  <2>1. Kept' /\ CopiesCounted'
    <3>1. Carries(live, live')
      BY <1>5 DEF Carries
    <3>2. "drain" \in Stages \ {"mark", "submit"}
      BY DEF Stages
    <3>3. PICK c : c = calls[t] /\ Becomes(t, "drain", {}, c.now, c.sent, c.snap)
      BY <1>1
    <3>4. QED
      BY <1>1, <1>5, <3>1, <3>2, <3>3, CallSteps DEF IInv
  <2>2. Stored'
    BY <1>4, <1>5 DEF IInv, Stored, Holding
  <2>3. QED
    BY <1>1, <1>3, <1>5, <2>1, <2>2, TurnStays DEF IInv
<1>6. CASE Installs(WithWork(calls[t].set, "done"))
  <2>1. /\ live' \in Session /\ live'.mailbox = live.mailbox
        /\ live'.history = live.history
        /\ live'.records = live.records /\ live'.dangling = live.dangling
        /\ \A i \in Items : live'.work[i] = IF i \in calls[t].set THEN "done" ELSE live.work[i]
        /\ disk' = live' /\ faults' = faults
    BY <1>1, <1>6, InstallEffect
  <2>2. \A i \in Items : Copies(live', i) = Copies(live, i) /\ Copies(live, i) \in Nat
    BY <1>1, <2>1, CopiesSame, CopiesTyped, Typed
  <2>3. Stored'
    BY <1>4, <2>1 DEF Stored, Holding
  <2>4. KeepsDelivered(live')
    <3>1. \A i \in calls[t].set : Copies(live, i) > 0
      BY <1>1 DEF IInv, Kept
    <3>2. KeepsDelivered(live)
      BY DEF IInv, Kept
    <3>3. QED
      BY <2>1, <2>2, <3>1, <3>2 DEF KeepsDelivered, Of
  <2>5. Kept'
    BY <1>4, <2>1, <2>4 DEF IInv, Kept, Holding, At
  <2>6. Counted(live', asked', faults')
    BY <1>1, <2>1, <2>2 DEF IInv, CopiesCounted, Counted, CountedOf
  <2>7. PendingCounted'
    <3> SUFFICES ASSUME NEW i \in Of("note"), live'.work[i] = "pending"
                 PROVE  Copies(live', i) <= faults'
      BY DEF PendingCounted
    <3>1. i \in Items /\ i \notin calls[t].set /\ live.work[i] = "pending"
      BY <2>1 DEF Of
    <3>2. \A u \in Callers : At(u, "mark") => i \notin calls[u].set
      BY <1>2, <3>1 DEF At, Holding
    <3>3. QED
      BY <2>1, <2>2, <3>1, <3>2 DEF IInv, CopiesCounted, PendingCounted
  <2>8. Submitting'
    BY <1>1, <1>4, <2>1, <2>2, Typed DEF IInv, CopiesCounted, Submitting
  <2>9. CopiesCounted'
    BY <1>1, <1>4, <2>1, <2>6, <2>7, <2>8 DEF IInv, CopiesCounted
  <2>10. QED
    BY <1>1, <1>3, <2>1, <2>3, <2>5, <2>9, TurnStays DEF IInv
<1>7. QED
  BY ONLY <1>1, <1>5, <1>6

(* Reading the outbox changes no session. *)
LEMMA DrainKeeps ==
  ASSUME IInv, NEW t \in Callers, Drain(t)
  PROVE  IInv'
<1>1. /\ TypeOK' /\ TypeOK
      /\ At(t, "drain") /\ live' = live /\ disk' = disk /\ tx' = tx /\ turn' = turn
      /\ asked' = asked /\ faults' = faults
      /\ \/ Becomes(t, "idle", {}, {}, {}, Blank)
         \/ LET c == calls[t] IN
            Becomes(t, "send", Pending("entry"), c.now, c.sent, c.snap)
  BY DrainEffect DEF IInv
<1>2. Pending("entry") \subseteq Of("entry")
  BY DEF Pending
<1>3. Protocol'
  <2>1. LockIsHeld'
    BY <1>1 DEF IInv, LockIsHeld, Holding, At, Becomes
  <2>2. Carried'
    BY <1>1, <1>2 DEF IInv, Carried, At, Becomes
  <2>3. Stored'
    BY <1>1 DEF IInv, Stored, Becomes
  <2>4. QED
    BY <2>1, <2>2, <2>3 DEF Protocol
<1>4. Kept' /\ CopiesCounted'
  <2>1. \E g \in {"idle", "send"}, x \in {calls[t].snap, live, Blank} :
          \E S, N, R : Becomes(t, g, S, N, R, x)
    BY <1>1
  <2>2. Carries(live, live')
    BY <1>1 DEF Carries
  <2>3. {"idle", "send"} \subseteq Stages \ {"mark", "submit"}
    BY DEF Stages
  <2>4. ~At(t, "mark")
    BY <1>1 DEF At
  <2>5. QED
    BY <1>1, <2>1, <2>2, <2>3, <2>4, CallSteps DEF IInv
<1>5. QED
  BY <1>1, <1>3, <1>4, TurnStays DEF IInv, Protocol

(* An entry that is not recorded has no copy, and nobody else submits it. *)
LEMMA SendKeeps ==
  ASSUME IInv, NEW t \in Callers, NEW i \in Items, Send(t, i)
  PROVE  IInv'
<1>1. /\ TypeOK' /\ TypeOK
      /\ At(t, "send") /\ i \in calls[t].set /\ disk' = disk /\ tx' = tx /\ turn' = turn
      /\ asked' = asked /\ faults' = faults
      /\ live'.work = live.work /\ live'.mailbox = live.mailbox
      /\ live'.history = live.history /\ live'.dangling = live.dangling
      /\ LET c == calls[t] IN
         \/ /\ i \in live.records /\ live' = live
            /\ Becomes(t, c.stage, c.set \ {i}, c.now, c.sent \cup {i}, c.snap)
         \/ /\ i \notin live.records /\ live'.records = live.records \cup {i}
            /\ Becomes(t, "submit", c.set \ {i}, {i}, c.sent, c.snap)
  BY SendEffect DEF IInv
<1>2. calls[t].set \subseteq Of("entry") /\ i \in Of("entry")
  BY <1>1 DEF IInv, Carried, At
<1>3. \A u \in Callers : /\ calls'[u].snap = calls[u].snap
                         /\ calls[u].now \subseteq Items /\ calls[u].set \subseteq Items
                         /\ u # t => calls'[u] = calls[u]
  BY <1>1, Typed DEF Becomes
<1>4. Protocol'
  <2>1. LockIsHeld'
    BY <1>1 DEF IInv, LockIsHeld, Holding, At, Becomes
  <2>2. Carried'
    BY <1>1, <1>2 DEF IInv, Carried, At, Becomes
  <2>3. Stored'
    BY <1>1 DEF IInv, Stored, Becomes, At
  <2>4. QED
    BY <2>1, <2>2, <2>3 DEF Protocol
<1>5. CASE /\ i \in live.records /\ live' = live
           /\ LET c == calls[t] IN
              Becomes(t, c.stage, c.set \ {i}, c.now, c.sent \cup {i}, c.snap)
  <2>1. \E x \in {calls[t].snap, live, Blank} : \E S, N, R : Becomes(t, "send", S, N, R, x)
    BY <1>1, <1>5 DEF At
  <2>2. Carries(live, live')
    BY <1>5 DEF Carries
  <2>3. "send" \in Stages \ {"mark", "submit"}
    BY DEF Stages
  <2>4. ~At(t, "mark")
    BY <1>1 DEF At
  <2>5. Kept' /\ CopiesCounted'
    BY <1>1, <2>1, <2>2, <2>3, <2>4, CallSteps DEF IInv
  <2>6. QED
    BY <1>1, <1>4, <2>5, TurnStays DEF IInv, Protocol
<1>6. CASE /\ i \notin live.records /\ live'.records = live.records \cup {i}
           /\ LET c == calls[t] IN Becomes(t, "submit", c.set \ {i}, {i}, c.sent, c.snap)
  <2>1. \A j \in Items : Copies(live', j) = Copies(live, j) /\ Copies(live, j) \in Nat
    BY <1>1, CopiesSame, CopiesTyped, Typed
  <2>2. \A u \in Callers : At(u, "mark")' <=> At(u, "mark") /\ u # t
    BY <1>1, <1>3, <1>6 DEF At, Becomes
  <2>3. Kept'
    <3>1. KeepsDelivered(live')
      BY <1>1, <2>1 DEF IInv, Kept, KeepsDelivered, Of
    <3>2. \A u \in Callers : At(u, "mark")' => \A j \in calls'[u].set : Copies(live', j) > 0
      BY <1>3, <2>1, <2>2 DEF IInv, Kept
    <3>3. QED
      BY <1>1, <1>3, <3>1, <3>2 DEF IInv, Kept
  <2>4. Copies(live, i) = 0
    BY <1>2, <1>6 DEF IInv, CopiesCounted, Counted, CountedOf, Of
  <2>5. Counted(live', asked', faults')
    BY <1>1, <1>6, <2>1 DEF IInv, CopiesCounted, Counted, CountedOf
  <2>6. PendingCounted'
    <3> SUFFICES ASSUME NEW j \in Of("note"), live'.work[j] = "pending",
                        \A u \in Callers : At(u, "mark")' => j \notin calls'[u].set
                 PROVE  Copies(live', j) <= faults'
      BY DEF PendingCounted
    <3>1. j \in Items /\ live.work[j] = "pending"
      BY <1>1 DEF Of
    <3>2. \A u \in Callers : At(u, "mark") => j \notin calls[u].set
      BY <1>1, <1>3, <2>2 DEF At
    <3>3. QED
      BY <1>1, <2>1, <3>1, <3>2 DEF IInv, CopiesCounted, PendingCounted
  <2>7. Submitting'
    <3>1. \A u \in Callers : u # t /\ At(u, "submit")' =>
            At(u, "submit") /\ calls'[u].now = calls[u].now /\ i \notin calls[u].now
      BY <1>3, <1>6 DEF IInv, CopiesCounted, Submitting, At
    <3>2. calls'[t].now = {i}
      BY <1>6 DEF Becomes
    <3>3. \A u \in Callers : At(u, "submit")' =>
            \A j \in calls'[u].now : j \in live'.records /\ Copies(live', j) = 0
      BY <1>3, <1>6, <2>1, <2>4, <3>1, <3>2 DEF IInv, CopiesCounted, Submitting
    <3>4. QED
      BY <3>1, <3>2, <3>3 DEF IInv, CopiesCounted, Submitting
  <2>8. CopiesCounted'
    BY <1>1, <1>3, <2>5, <2>6, <2>7 DEF IInv, CopiesCounted
  <2>9. QED
    BY <1>1, <1>4, <2>3, <2>8, TurnStays DEF IInv, Protocol
<1>7. QED
  BY ONLY <1>1, <1>5, <1>6

(* A submission gives its entry the one copy it has. *)
LEMMA SubmitKeeps ==
  ASSUME IInv, NEW t \in Callers, Submit(t)
  PROVE  IInv'
<1>1. /\ TypeOK' /\ TypeOK
      /\ At(t, "submit") /\ disk' = disk /\ tx' = tx /\ turn' = turn
      /\ asked' = asked /\ faults' = faults
      /\ live'.mailbox = PlusSet(live.mailbox, calls[t].now) /\ live'.work = live.work
      /\ live'.records = live.records /\ live'.history = live.history
      /\ live'.dangling = live.dangling
      /\ LET c == calls[t] IN Becomes(t, "sent", c.set, c.now, c.sent, c.snap)
  BY SubmitEffect DEF IInv
<1> DEFINE S == calls[t].now
<1>2. S \subseteq Of("entry")
  BY <1>1 DEF IInv, Carried
<1>3. \A u \in Callers : /\ calls'[u].snap = calls[u].snap /\ calls'[u].now = calls[u].now
                         /\ calls'[u].set = calls[u].set
                         /\ calls[u].now \subseteq Items /\ calls[u].set \subseteq Items
                         /\ At(u, "mark")' = At(u, "mark")
                         /\ At(u, "submit")' => At(u, "submit") /\ u # t
  BY <1>1, Typed DEF Becomes, At
<1>4. \A j \in Items : /\ Copies(live', j) = IF j \in S THEN Copies(live, j) + 1
                                                        ELSE Copies(live, j)
                       /\ Copies(live, j) \in Nat
  BY <1>1, CopiesGrow, CopiesTyped, Typed
<1>5. \A j \in S : j \in live.records /\ Copies(live, j) = 0
  BY <1>1 DEF IInv, CopiesCounted, Submitting
<1>6. Protocol'
  <2>1. LockIsHeld'
    BY <1>1 DEF IInv, LockIsHeld, Holding, At, Becomes
  <2>2. Carried'
    BY <1>1 DEF IInv, Carried, At, Becomes
  <2>3. Stored'
    BY <1>1 DEF IInv, Stored, Becomes
  <2>4. QED
    BY <2>1, <2>2, <2>3 DEF Protocol
<1> HIDE DEF S
<1>7. Kept'
  <2>1. KeepsDelivered(live')
    BY <1>1, <1>4 DEF IInv, Kept, KeepsDelivered, Of
  <2>2. \A u \in Callers : At(u, "mark")' => \A j \in calls'[u].set : Copies(live', j) > 0
    BY <1>3, <1>4 DEF IInv, Kept
  <2>3. QED
    BY <1>1, <1>3, <2>1, <2>2 DEF IInv, Kept
<1>8. Counted(live', asked', faults')
  <2> SUFFICES ASSUME NEW j \in Items PROVE CountedOf(live', j, asked', faults')
    BY DEF Counted
  <2>1. CountedOf(live, j, asked, faults) /\ faults \in Nat
    BY <1>1, Typed DEF IInv, CopiesCounted, Counted
  <2>2. CASE j \in S
    <3>1. Kind[j] = "entry" /\ j \in live.records /\ Copies(live', j) = 1
      BY <1>2, <1>4, <1>5, <2>2 DEF Of
    <3>2. QED
      BY <1>1, <2>1, <3>1 DEF CountedOf
  <2>3. CASE j \notin S
    BY <1>1, <1>4, <2>1, <2>3 DEF CountedOf
  <2>4. QED
    BY <2>2, <2>3
<1>9. PendingCounted'
  <2> SUFFICES ASSUME NEW j \in Of("note"), live'.work[j] = "pending",
                      \A u \in Callers : At(u, "mark")' => j \notin calls'[u].set
               PROVE  Copies(live', j) <= faults'
    BY DEF PendingCounted
  <2>1. j \in Items /\ live.work[j] = "pending" /\ j \notin S
    BY <1>1, <1>2 DEF Of
  <2>2. \A u \in Callers : At(u, "mark") => j \notin calls[u].set
    BY <1>3
  <2>3. QED
    BY <1>1, <1>4, <2>1, <2>2 DEF IInv, CopiesCounted, PendingCounted
<1>10. Submitting'
  <2>1. \A u \in Callers : At(u, "submit")' => calls'[u].now \cap S = {}
    BY <1>1, <1>3 DEF IInv, CopiesCounted, Submitting, S
  <2>2. QED
    BY <1>1, <1>3, <1>4, <2>1 DEF IInv, CopiesCounted, Submitting
<1>11. CopiesCounted'
  BY <1>1, <1>3, <1>8, <1>9, <1>10 DEF IInv, CopiesCounted
<1>12. QED
  BY <1>1, <1>6, <1>7, <1>11, TurnStays DEF IInv, Protocol

(* A snapshot is of the session in memory. *)
LEMMA SnapshotsKeeps ==
  ASSUME IInv, NEW t \in Callers, NEW g \in {"sentsave", "save"},
         calls[t].stage \in {"idle", "sent"}, Snapshots(t, g)
  PROVE  IInv'
<1>1. /\ TypeOK' /\ TypeOK
      /\ live' = live /\ disk' = disk /\ tx = Free /\ tx' = t /\ turn' = turn
      /\ asked' = asked /\ faults' = faults
      /\ LET c == calls[t] IN Becomes(t, g, c.set, c.now, c.sent, live)
  BY SnapshotsEffect DEF IInv, Stages
<1>2. Protocol'
  <2>1. LockIsHeld'
    BY <1>1 DEF IInv, LockIsHeld, Holding, Becomes, Callers, Free
  <2>2. Carried'
    BY <1>1 DEF IInv, Carried, At, Becomes
  <2>3. Stored'
    BY <1>1 DEF IInv, Stored, Becomes
  <2>4. QED
    BY <2>1, <2>2, <2>3 DEF Protocol
<1>3. Kept' /\ CopiesCounted'
  <2>1. \E x \in {calls[t].snap, live, Blank} : \E S, N, R : Becomes(t, g, S, N, R, x)
    BY <1>1
  <2>2. Carries(live, live')
    BY <1>1 DEF Carries
  <2>3. g \in Stages \ {"mark", "submit"}
    BY DEF Stages
  <2>4. ~At(t, "mark")
    BY <1>1 DEF At
  <2>5. QED
    BY <1>1, <2>1, <2>2, <2>3, <2>4, CallSteps DEF IInv
<1>4. QED
  BY <1>1, <1>2, <1>3, TurnStays DEF IInv, Protocol

(* A save that ends has written its snapshot under the lock, or failed. *)
LEMMA SaveEndKeeps ==
  ASSUME IInv, NEW t \in Callers, SaveEnd(t) \/ SentEnd(t)
  PROVE  IInv'
<1>1. /\ TypeOK' /\ TypeOK
      /\ calls[t].stage \in {"save", "sentsave"}
      /\ tx' = (IF tx = t THEN Free ELSE tx) /\ turn' = turn
      /\ asked' = asked /\ live' = live
      /\ \E g \in {"idle", "send"} : \E S, R : /\ S \in {{}, calls[t].set}
                                               /\ R \subseteq Of("entry")
                                               /\ Becomes(t, g, S, {}, R, Blank)
      /\ \/ disk' = calls[t].snap /\ faults' = faults
         \/ disk' = disk /\ faults' = faults + 1
  <2>1. CASE SaveEnd(t)
    <3>1. /\ TypeOK' /\ TypeOK
          /\ At(t, "save") /\ tx' = (IF tx = t THEN Free ELSE tx) /\ turn' = turn
          /\ asked' = asked /\ live' = live
          /\ Becomes(t, "idle", {}, {}, {}, Blank)
          /\ \/ disk' = calls[t].snap /\ faults' = faults
             \/ disk' = disk /\ faults' = faults + 1
      BY <2>1, SaveEndEffect DEF IInv
    <3>2. QED
      BY <3>1 DEF At
  <2>2. CASE SentEnd(t)
    <3>1. /\ TypeOK' /\ TypeOK
          /\ At(t, "sentsave") /\ tx' = (IF tx = t THEN Free ELSE tx) /\ turn' = turn
          /\ asked' = asked /\ live' = live
          /\ \E g \in {"idle", "send"}, S \in SUBSET (calls[t].now \ Of("input")) :
               LET c == calls[t] IN Becomes(t, g, c.set, {}, c.sent \cup S, Blank)
          /\ \/ disk' = calls[t].snap /\ faults' = faults
             \/ disk' = disk /\ faults' = faults + 1
      BY <2>2, SentEndEffect DEF IInv
    <3>2. calls[t].sent \subseteq Of("entry")
      BY DEF IInv, Carried
    <3>3. calls[t].now \ Of("input") \subseteq Of("entry")
      BY <3>1 DEF IInv, Carried
    <3>4. QED
      BY <3>1, <3>2, <3>3 DEF At
  <2>3. QED
    BY <2>1, <2>2
<1>2. PICK g \in {"idle", "send"} : \E S, R : /\ S \in {{}, calls[t].set}
                                             /\ R \subseteq Of("entry")
                                             /\ Becomes(t, g, S, {}, R, Blank)
  BY <1>1
<1>3. PICK S, R : /\ S \in {{}, calls[t].set}
                  /\ R \subseteq Of("entry")
                  /\ Becomes(t, g, S, {}, R, Blank)
  BY <1>2
<1>4. tx = t /\ \A u \in Callers : u # t => calls[u].stage \notin Holding
  BY <1>1 DEF IInv, LockIsHeld, Holding
<1>5. Protocol'
  <2>1. LockIsHeld'
    BY <1>1, <1>3, <1>4 DEF IInv, LockIsHeld, Holding, Becomes, Callers, Free
  <2>2. Carried'
    BY <1>1, <1>3 DEF IInv, Carried, At, Becomes
  <2>3. Stored'
    BY <1>1, <1>3 DEF IInv, Stored, Becomes
  <2>4. QED
    BY <2>1, <2>2, <2>3 DEF Protocol
<1>6. Kept' /\ CopiesCounted'
  <2>1. Carries(live, live')
    BY <1>1 DEF Carries
  <2>2. g \in Stages \ {"mark", "submit"} /\ ~At(t, "mark")
    BY <1>1 DEF Stages, At
  <2>3. QED
    BY <1>1, <1>3, <2>1, <2>2, CallSteps DEF IInv
<1>7. QED
  BY <1>1, <1>5, <1>6, TurnStays DEF IInv, Protocol

(* The acknowledgement marks entries only. *)
LEMMA AckKeeps ==
  ASSUME IInv, NEW t \in Callers, Ack(t)
  PROVE  IInv'
<1>1. /\ TypeOK' /\ TypeOK
      /\ At(t, "send") /\ tx' = tx /\ turn' = turn /\ asked' = asked
      /\ Becomes(t, "idle", {}, {}, {}, Blank)
      /\ \/ live' = live /\ disk' = disk /\ faults' \in {faults, faults + 1}
         \/ tx = Free /\ Installs(WithWork(calls[t].sent, "done"))
  BY AckEffect DEF IInv
<1>2. LockIsHeld' /\ Carried'
  BY <1>1 DEF IInv, LockIsHeld, Carried, Holding, At, Becomes
<1>3. "idle" \in Stages \ {"mark", "submit"} /\ ~At(t, "mark")
  BY <1>1 DEF Stages, At
<1>4. CASE live' = live /\ disk' = disk /\ faults' \in {faults, faults + 1}
  <2>1. Carries(live, live')
    BY <1>4 DEF Carries
  <2>2. Kept' /\ CopiesCounted'
    BY <1>1, <1>3, <1>4, <2>1, CallSteps DEF IInv
  <2>3. Stored'
    BY <1>1, <1>4 DEF IInv, Stored, Becomes
  <2>4. QED
    BY <1>1, <1>2, <1>4, <2>2, <2>3, TurnStays DEF IInv
<1>5. CASE tx = Free /\ Installs(WithWork(calls[t].sent, "done"))
  <2>1. /\ live' \in Session /\ live'.mailbox = live.mailbox
        /\ live'.history = live.history
        /\ live'.records = live.records /\ live'.dangling = live.dangling
        /\ \A i \in Items : live'.work[i] = IF i \in calls[t].sent THEN "done" ELSE live.work[i]
        /\ disk' = live' /\ faults' = faults
    BY <1>1, <1>5, InstallEffect
  <2>2. \A i \in Items : Copies(live', i) = Copies(live, i) /\ Copies(live, i) \in Nat
    BY <1>1, <2>1, CopiesSame, CopiesTyped, Typed
  <2>3. /\ calls[t].sent \subseteq Of("entry")
        /\ \A u \in Callers : calls[u].stage \notin Holding
    BY <1>5 DEF IInv, Carried, LockIsHeld, Callers, Free
  <2>4. \A u \in Callers : /\ calls'[u].snap \in {calls[u].snap, Blank}
                           /\ calls'[u].stage \notin Holding
                           /\ u # t => calls'[u] = calls[u]
                           /\ At(u, "submit")' => At(u, "submit") /\ u # t
    BY <1>1, <2>3 DEF Becomes, Holding, At
  <2>5. Stored'
    BY <2>1, <2>4 DEF Stored, Holding
  <2>6. \A i \in Of("note") : i \in Items /\ live'.work[i] = live.work[i]
    BY <2>1, <2>3 DEF Of
  <2>7. Kept'
    <3>1. KeepsDelivered(live')
      BY <2>2, <2>6 DEF IInv, Kept, KeepsDelivered
    <3>2. \A u \in Callers : KeepsDelivered(calls'[u].snap)
      BY <1>1, <2>4, BlankCounted, Typed DEF IInv, Kept
    <3>3. QED
      BY <2>1, <2>4, <3>1, <3>2 DEF Kept, Holding, At
  <2>8. Counted(live', asked', faults')
    BY <1>1, <2>1, <2>2, <2>6 DEF IInv, CopiesCounted, Counted, CountedOf, Of
  <2>9. PendingCounted'
    <3> SUFFICES ASSUME NEW i \in Of("note"), live'.work[i] = "pending"
                 PROVE  Copies(live', i) <= faults'
      BY DEF PendingCounted
    <3>1. i \in Items /\ live.work[i] = "pending"
      BY <2>6
    <3>2. \A u \in Callers : At(u, "mark") => i \notin calls[u].set
      BY <2>3 DEF At, Holding
    <3>3. QED
      BY <2>1, <2>2, <3>1, <3>2 DEF IInv, CopiesCounted, PendingCounted
  <2>10. Submitting'
    BY <1>1, <2>1, <2>2, <2>4, Typed DEF IInv, CopiesCounted, Submitting
  <2>11. \A u \in Callers : Counted(calls'[u].snap, asked', faults')
    BY <1>1, <2>1, <2>4, BlankCounted, Typed DEF IInv, CopiesCounted
  <2>12. CopiesCounted'
    BY <2>1, <2>8, <2>9, <2>10, <2>11 DEF CopiesCounted
  <2>13. QED
    BY <1>1, <1>2, <2>1, <2>5, <2>7, <2>12, TurnStays DEF IInv
<1>6. QED
  BY ONLY <1>1, <1>4, <1>5

(* An input is put in the mailbox once: by a call or by a prompt. *)
LEMMA FirstCopy ==
  ASSUME IInv, TypeOK', NEW i \in Items, Kind[i] = "input", i \notin asked,
         asked' = asked \cup {i}, disk' = disk, faults' = faults,
         live'.mailbox = PlusSet(live.mailbox, {i}), live'.history = live.history,
         live'.work = live.work, live'.records = live.records,
         \A t \in Callers : /\ calls'[t].snap = calls[t].snap
                            /\ calls'[t].set = calls[t].set
                            /\ At(t, "mark")' = At(t, "mark")
                            /\ At(t, "submit")' => At(t, "submit")
                                                   /\ calls'[t].now = calls[t].now
  PROVE  Kept' /\ CopiesCounted'
<1>1. TypeOK
  BY DEF IInv
<1>2. \A j \in Items : /\ Copies(live', j) = IF j \in {i} THEN Copies(live, j) + 1
                                                          ELSE Copies(live, j)
                       /\ Copies(live, j) \in Nat
  <2>1. live \in Session
    BY <1>1, Typed
  <2>2. \A j \in Items : Copies(live', j) = IF j \in {i} THEN Copies(live, j) + 1
                                                          ELSE Copies(live, j)
    BY <2>1, CopiesGrow
  <2>3. QED
    BY <2>1, <2>2, CopiesTyped
<1>3. Copies(live, i) = 0
  BY DEF IInv, CopiesCounted, Counted, CountedOf
<1>4. /\ faults \in Nat
      /\ \A t \in Callers : calls[t].set \subseteq Items /\ calls[t].now \subseteq Items
  BY <1>1, Typed
<1>5. Kept'
  <2>1. KeepsDelivered(live')
    BY <1>2 DEF IInv, Kept, KeepsDelivered, Of
  <2>2. \A u \in Callers : At(u, "mark")' => \A j \in calls'[u].set : Copies(live', j) > 0
    BY <1>2, <1>4 DEF IInv, Kept
  <2>3. QED
    BY <2>1, <2>2 DEF IInv, Kept
<1>6. Counted(live', asked', faults')
  <2> SUFFICES ASSUME NEW j \in Items PROVE CountedOf(live', j, asked', faults')
    BY DEF Counted
  <2>1. CountedOf(live, j, asked, faults)
    BY DEF IInv, CopiesCounted, Counted
  <2>2. CASE j = i
    BY <1>2, <1>3, <1>4, <2>2 DEF CountedOf
  <2>3. CASE j # i
    BY <1>2, <2>1, <2>3 DEF CountedOf
  <2>4. QED
    BY <2>2, <2>3
<1>7. ASSUME NEW x, Counted(x, asked, faults) PROVE Counted(x, asked', faults')
  BY <1>7 DEF Counted, CountedOf
<1>8. PendingCounted'
  <2> SUFFICES ASSUME NEW j \in Of("note"), live'.work[j] = "pending",
                      \A u \in Callers : At(u, "mark")' => j \notin calls'[u].set
               PROVE  Copies(live', j) <= faults'
    BY DEF PendingCounted
  <2>1. j \in Items /\ live.work[j] = "pending" /\ j # i
    BY DEF Of
  <2>2. \A u \in Callers : At(u, "mark") => j \notin calls[u].set
    OBVIOUS
  <2>3. QED
    BY <1>2, <2>1, <2>2 DEF IInv, CopiesCounted, PendingCounted
<1>9. Submitting'
  <2>1. \A u \in Callers : At(u, "submit") => i \notin calls[u].now
    BY DEF IInv, Carried, Of
  <2>2. QED
    BY <1>2, <1>4, <2>1 DEF IInv, CopiesCounted, Submitting
<1>10. QED
  BY <1>5, <1>6, <1>7, <1>8, <1>9 DEF IInv, CopiesCounted

(* Input keeps the invariant. *)
LEMMA InputKeeps ==
  ASSUME IInv, NEW t \in Callers, NEW i \in Items, Input(t, i)
  PROVE  IInv'
<1>1. /\ TypeOK' /\ TypeOK
      /\ At(t, "idle") /\ Kind[i] = "input" /\ i \notin asked /\ asked' = asked \cup {i}
      /\ disk' = disk /\ tx' = tx /\ turn' = turn /\ faults' = faults
      /\ live'.mailbox = PlusSet(live.mailbox, {i}) /\ live'.work = live.work
      /\ live'.records = live.records /\ live'.history = live.history
      /\ live'.dangling = live.dangling
      /\ LET c == calls[t] IN Becomes(t, "sent", c.set, {i}, c.sent, c.snap)
  BY InputEffect DEF IInv
<1>2. Protocol'
  <2>1. LockIsHeld'
    BY <1>1 DEF IInv, LockIsHeld, Holding, At, Becomes
  <2>2. Carried'
    BY <1>1 DEF IInv, Carried, At, Becomes, Of
  <2>3. Stored'
    BY <1>1 DEF IInv, Stored, Becomes
  <2>4. QED
    BY <2>1, <2>2, <2>3 DEF Protocol
<1>3. Kept' /\ CopiesCounted'
  <2>1. \A u \in Callers : /\ calls'[u].snap = calls[u].snap
                           /\ calls'[u].set = calls[u].set
                           /\ At(u, "mark")' = At(u, "mark")
                           /\ At(u, "submit")' => At(u, "submit")
                                                  /\ calls'[u].now = calls[u].now
    BY <1>1 DEF Becomes, At
  <2>2. QED
    BY <1>1, <2>1, FirstCopy
<1>4. QED
  BY <1>1, <1>2, <1>3, TurnStays DEF IInv, Protocol

(* PromptStart keeps the invariant. *)
LEMMA PromptStartKeeps ==
  ASSUME IInv, NEW i \in Items, PromptStart(i)
  PROVE  IInv'
<1>1. /\ TypeOK' /\ TypeOK
      /\ disk' = disk /\ tx' = tx /\ calls' = calls /\ faults' = faults
      /\ Kind[i] = "input" /\ i \notin asked /\ asked' = asked \cup {i}
      /\ live'.mailbox = PlusSet(live.mailbox, {i}) /\ live'.work = live.work
      /\ live'.records = live.records /\ live'.history = live.history
      /\ live'.dangling = FALSE /\ turn' = NewTurn("prompt", NoTurn.keep)
  BY PromptStartEffect DEF IInv
<1>2. Protocol'
  BY <1>1 DEF IInv, Protocol, LockIsHeld, Carried, Stored, At
<1>3. Kept' /\ CopiesCounted'
  BY <1>1, FirstCopy DEF At
<1>4. RollsBack' /\ Answered'
  BY <1>1 DEF RollsBack, Answered, NewTurn
<1>5. QED
  BY <1>1, <1>2, <1>3, <1>4 DEF IInv, Protocol

-----------------------------------------------------------------------------
(* The turns, and a crash.                                                 *)

(* What concerns the calls outlives a step of a turn. *)
LEMMA CallsStay ==
  ASSUME IInv, tx' = tx, calls' = calls, disk' = disk, live'.work = live.work
  PROVE  Protocol'
  BY DEF IInv, Protocol, LockIsHeld, Carried, Stored, At

(* WakeStart keeps the invariant. *)
LEMMA WakeStartKeeps ==
  ASSUME IInv, WakeStart
  PROVE  IInv'
<1>1. /\ TypeOK' /\ TypeOK
      /\ disk' = disk /\ tx' = tx /\ calls' = calls /\ asked' = asked /\ faults' = faults
      /\ \/ live' = live /\ turn' = turn
         \/ /\ live' = Repaired(live) /\ turn = NoTurn
            /\ turn' = NewTurn("wake", Trajectory(live))
  BY WakeStartEffect DEF IInv
<1>2. /\ live \in Session /\ Repaired(live).dangling = FALSE
      /\ Repaired(live).work = live.work /\ Repaired(live).mailbox = live.mailbox
      /\ Repaired(live).history = live.history /\ Repaired(live).records = live.records
  BY <1>1, Typed, RepairedEffect
<1>3. Carries(live, live')
  BY <1>1, <1>2, CopiesSame DEF Carries
<1>4. Protocol'
  BY <1>1, <1>3, CallsStay DEF Carries
<1>5. Kept' /\ CopiesCounted'
  BY <1>1, <1>3, MessagesMoved DEF IInv
<1>6. RollsBack' /\ Answered'
  <2>1. CASE live' = live /\ turn' = turn
    BY <2>1, TurnStays DEF IInv
  <2>2. CASE live' = Repaired(live) /\ turn' = NewTurn("wake", Trajectory(live))
    <3>1. /\ turn'.keep.history = live.history /\ turn'.batch = Nothing
          /\ turn'.stage = "head"
      BY <2>2 DEF NewTurn, Trajectory
    <3>2. \A j \in Items : live.history[j] \in Nat
      BY <1>2, SessionFields DEF Bag
    <3>3. RollsBack'
      BY <1>2, <2>2, <3>1, <3>2 DEF RollsBack, Nothing
    <3>4. Answered'
      BY <1>2, <2>2 DEF Answered
    <3>5. QED
      BY <3>3, <3>4
  <2>3. QED
    BY <1>1, <2>1, <2>2
<1>7. QED
  BY <1>1, <1>4, <1>5, <1>6 DEF IInv, Protocol

(* TurnGoesOn keeps the invariant. *)
LEMMA TurnGoesOnKeeps ==
  ASSUME IInv, TurnGoesOn
  PROVE  IInv'
<1>1. /\ TypeOK' /\ TypeOK
      /\ disk' = disk /\ tx' = tx /\ calls' = calls /\ asked' = asked /\ faults' = faults
      /\ \/ Takes /\ turn.stage \in {"head", "stopping"}
         \/ /\ SameMessages(live', live) /\ turn'.kind = turn.kind
            /\ turn.stage \notin {"none", "leaving"}
            /\ \/ turn'.batch = turn.batch /\ turn'.keep = turn.keep
               \/ turn'.batch = Nothing
                  /\ (turn.kind = "wake" => turn'.keep = Trajectory(live'))
            /\ \/ turn'.stage = "tools"
               \/ turn'.stage = "head" /\ live'.dangling = FALSE
               \/ turn.stage # "tools" /\ live' = live
         \/ turn' = NoTurn /\ live' = live
  BY TurnGoesOnEffect DEF IInv
<1>2. live \in Session
  BY <1>1, Typed
<1>3. CASE Takes /\ turn.stage \in {"head", "stopping"}
  <2>1. /\ live' \in Session /\ live'.history = Plus(live.history, live.mailbox)
        /\ live'.work = live.work /\ live'.dangling = live.dangling
        /\ turn'.kind = turn.kind /\ turn'.keep = turn.keep
        /\ turn'.stage \in {"generate", "head"}
        /\ turn.kind = "wake" => turn'.batch = Plus(turn.batch, live.mailbox)
    BY <1>1, <1>3, TakesEffect
  <2>2. Kept' /\ CopiesCounted'
    BY <1>1, <1>3, CopiesDrained, MessagesMoved DEF IInv
  <2>3. Answered'
    BY <1>3, <2>1 DEF IInv, Answered
  <2>4. RollsBack'
    <3> SUFFICES ASSUME turn'.kind = "wake", NEW i \in Items
                 PROVE  live'.history[i] = turn'.keep.history[i] + turn'.batch[i]
      BY DEF RollsBack
    <3>1. /\ live.history \in Bag /\ live.mailbox \in Bag /\ turn.batch \in Bag
          /\ turn.keep.history \in Bag
      BY <1>1, <1>2, Typed, SessionFields
    <3>2. /\ Plus(live.history, live.mailbox)[i] = live.history[i] + live.mailbox[i]
          /\ Plus(turn.batch, live.mailbox)[i] = turn.batch[i] + live.mailbox[i]
          /\ live.history[i] \in Nat /\ live.mailbox[i] \in Nat /\ turn.batch[i] \in Nat
          /\ turn.keep.history[i] \in Nat
      BY <3>1, PlusTyped DEF Bag
    <3>3. live.history[i] = turn.keep.history[i] + turn.batch[i]
      BY <2>1 DEF IInv, RollsBack
    <3>4. QED
      BY <2>1, <3>2, <3>3
  <2>5. QED
    BY <1>1, <2>1, <2>2, <2>3, <2>4, CallsStay DEF IInv, Protocol
<1>4. CASE /\ SameMessages(live', live) /\ turn'.kind = turn.kind
           /\ turn.stage \notin {"none", "leaving"}
           /\ \/ turn'.batch = turn.batch /\ turn'.keep = turn.keep
              \/ turn'.batch = Nothing
                 /\ (turn.kind = "wake" => turn'.keep = Trajectory(live'))
           /\ \/ turn'.stage = "tools"
              \/ turn'.stage = "head" /\ live'.dangling = FALSE
              \/ turn.stage # "tools" /\ live' = live
  <2>1. Carries(live, live')
    BY <1>4, CopiesSame DEF SameMessages, Carries
  <2>2. Kept' /\ CopiesCounted'
    BY <1>1, <2>1, MessagesMoved DEF IInv
  <2>3. Answered'
    BY <1>4 DEF IInv, Answered
  <2>4. RollsBack'
    <3>1. CASE turn'.batch = turn.batch /\ turn'.keep = turn.keep
      BY <1>4, <3>1 DEF IInv, RollsBack, SameMessages
    <3>2. CASE turn'.batch = Nothing /\ (turn.kind = "wake" => turn'.keep = Trajectory(live'))
      <4>1. live' \in Session
        BY <1>4 DEF SameMessages
      <4>2. \A i \in Items : live'.history[i] \in Nat
        BY <4>1, SessionFields DEF Bag
      <4>3. Trajectory(live').history = live'.history
        BY <4>1, SessionFields
      <4>4. QED
        BY <1>4, <3>2, <4>2, <4>3 DEF RollsBack, Nothing
    <3>3. QED
      BY <1>4, <3>1, <3>2
  <2>5. QED
    BY <1>1, <2>1, <2>2, <2>3, <2>4, CallsStay DEF IInv, Protocol, Carries
<1>5. CASE turn' = NoTurn /\ live' = live
  <2>1. Carries(live, live')
    BY <1>5 DEF Carries
  <2>2. Kept' /\ CopiesCounted'
    BY <1>1, <2>1, MessagesMoved DEF IInv
  <2>3. RollsBack' /\ Answered'
    BY <1>5 DEF RollsBack, Answered, NoTurn
  <2>4. QED
    BY <1>1, <2>1, <2>2, <2>3, CallsStay DEF IInv, Protocol, Carries
<1>6. QED
  BY ONLY <1>1, <1>3, <1>4, <1>5

(* TurnFails keeps the invariant. *)
LEMMA TurnFailsKeeps ==
  ASSUME IInv, TurnFails
  PROVE  IInv'
<1>1. /\ TypeOK' /\ TypeOK
      /\ disk' = disk /\ tx' = tx /\ calls' = calls /\ asked' = asked
      /\ faults' = faults + 1 /\ turn' = NoTurn
      /\ live' = IF turn.kind = "wake" THEN RolledBack ELSE live
  BY TurnFailsEffect DEF IInv
<1>2. Carries(live, live')
  <2>1. CASE turn.kind = "wake"
    BY <1>1, <2>1, CopiesRolledBack DEF IInv
  <2>2. CASE turn.kind # "wake"
    BY <1>1, <2>2 DEF Carries
  <2>3. QED
    BY <2>1, <2>2
<1>3. Kept' /\ CopiesCounted'
  BY <1>1, <1>2, MessagesMoved DEF IInv
<1>4. RollsBack' /\ Answered'
  BY <1>1 DEF RollsBack, Answered, NoTurn
<1>5. QED
  BY <1>1, <1>2, <1>3, <1>4, CallsStay DEF IInv, Protocol, Carries

(* The session that comes back is the file's, and nobody is amid a call. *)
LEMMA CrashKeeps ==
  ASSUME IInv, Crash
  PROVE  IInv'
<1>1. /\ TypeOK' /\ TypeOK
      /\ live' = Repaired(disk) /\ disk' = disk /\ asked' = asked /\ tx' = 1
      /\ faults' = faults + 1 /\ turn' = NoTurn
      /\ \A t \in Callers :
           /\ calls'[t].stage = IF t = 1 THEN "deliver" ELSE "idle"
           /\ calls'[t].set = {} /\ calls'[t].now = {} /\ calls'[t].sent = {}
           /\ calls'[t].snap = Blank
  BY CrashEffect DEF IInv
<1>2. /\ live' \in Session /\ disk \in Session /\ faults \in Nat
      /\ live'.work = disk.work /\ live'.mailbox = disk.mailbox
      /\ live'.history = disk.history /\ live'.records = disk.records
  BY <1>1, Typed, RepairedEffect
<1>3. Carries(disk, live')
  BY <1>2, CopiesSame DEF Carries
<1>4. Protocol'
  BY <1>1, <1>2 DEF Protocol, LockIsHeld, Carried, Stored, Holding, At
<1>5. Kept'
  BY <1>1, <1>3, KeepsCarried, BlankCounted, <1>2 DEF IInv, Kept, At
<1>6. Counted(live', asked', faults') /\ Counted(disk', asked', faults')
  <2>1. Carries(disk, disk) /\ faults + 1 \in Nat /\ faults <= faults + 1
    BY <1>2 DEF Carries
  <2>2. Counted(disk, asked, faults)
    BY DEF IInv, CopiesCounted
  <2>3. QED
    BY <1>1, <1>2, <1>3, <2>1, <2>2, CountedCarried
<1>7. PendingCounted'
  <2> SUFFICES ASSUME NEW i \in Of("note") PROVE Copies(live', i) <= faults'
    BY DEF PendingCounted
  <2>1. Copies(disk, i) <= 1 + faults /\ Copies(disk, i) \in Nat /\ i \in Items
    BY <1>2, CopiesTyped DEF IInv, CopiesCounted, Counted, CountedOf, Of
  <2>2. QED
    BY <1>1, <1>2, <1>3, <2>1 DEF Carries
<1>8. Submitting'
  BY <1>1 DEF Submitting, At
<1>9. CopiesCounted'
  <2>1. faults' \in Nat
    BY <1>1, <1>2
  <2>2. QED
    BY <1>1, <1>6, <1>7, <1>8, <2>1, BlankCounted DEF CopiesCounted
<1>10. RollsBack' /\ Answered'
  BY <1>1 DEF RollsBack, Answered, NoTurn
<1>11. QED
  BY <1>1, <1>4, <1>5, <1>9, <1>10 DEF IInv, Protocol

-----------------------------------------------------------------------------
(* The theorems.                                                           *)

(* The first state satisfies the invariant. *)
LEMMA Initially == Init => IInv
<1> SUFFICES ASSUME Init PROVE IInv
  OBVIOUS
<1>1. /\ live = Blank /\ disk = Blank /\ tx = Free
      /\ calls = [t \in Callers |-> IdleCall]
      /\ turn = NoTurn /\ wakes = 0 /\ loading = FALSE
      /\ asked = {} /\ faults = 0 /\ stranded = FALSE
  BY DEF Init
<1>2. \A t \in Callers : /\ calls[t].stage = "idle" /\ calls[t].set = {}
                         /\ calls[t].now = {} /\ calls[t].sent = {} /\ calls[t].snap = Blank
  BY <1>1 DEF IdleCall
<1>3. TypeOK
  <2>1. /\ live \in Session /\ disk \in Session /\ calls \in [Callers -> Call]
        /\ turn \in Turn
    BY <1>1, Constants
  <2>2. faults \in 0..MaxFaults /\ wakes \in Nat /\ asked \subseteq Of("input")
    BY <1>1, BoundsAreNats
  <2>3. loading \in BOOLEAN /\ stranded \in BOOLEAN
    BY <1>1, Zenon
  <2>4. tx \in Callers \cup {Free}
    BY <1>1
  <2>5. QED
    BY <2>1, <2>2, <2>3, <2>4 DEF TypeOK, Call, Stages, Turn, Path
<1>4. LockIsHeld /\ Carried /\ Stored
  BY <1>1, <1>2 DEF LockIsHeld, Carried, Stored, Holding, At, Callers, Free
<1>5. faults \in Nat
  BY <1>1
<1>6. Kept
  BY <1>1, <1>2, <1>5, BlankCounted DEF Kept, At
<1>7. CopiesCounted
  <2>1. PendingCounted
    BY <1>1 DEF PendingCounted, Of, Blank
  <2>2. Submitting
    BY <1>2 DEF Submitting, At
  <2>3. QED
    BY <1>1, <1>2, <1>5, <2>1, <2>2, BlankCounted DEF CopiesCounted
<1>8. RollsBack /\ Answered
  BY <1>1 DEF RollsBack, Answered, NoTurn
<1>9. QED
  BY <1>3, <1>4, <1>6, <1>7, <1>8 DEF IInv

(* Every step keeps the invariant. *)
LEMMA Inductive == IInv /\ [Next]_vars => IInv'
<1> SUFFICES ASSUME IInv, [Next]_vars PROVE IInv'
  OBVIOUS
<1>1. ASSUME NEW t \in Callers, Begins(t) PROVE IInv'
  <2>1. ASSUME NEW i \in Items, Commit(t, i) \/ Input(t, i) PROVE IInv'
    BY <2>1, CommitKeeps, InputKeeps
  <2>2. CASE SaveBegin(t)
    BY <2>2, SnapshotsKeeps DEF SaveBegin, CanCall, At
  <2>3. QED
    BY <1>1, <2>1, <2>2 DEF Begins
<1>2. ASSUME NEW t \in Callers, Continues(t) PROVE IInv'
  <2>1. ASSUME NEW i \in Items, Send(t, i) PROVE IInv'
    BY <2>1, SendKeeps
  <2>2. CASE SentBegin(t)
    BY <2>2, SnapshotsKeeps DEF SentBegin, At
  <2>3. QED
    BY <1>2, <2>1, <2>2, DeliverKeeps, MarkKeeps, DrainKeeps, SubmitKeeps, SaveEndKeeps,
       AckKeeps DEF Continues
<1>3. ASSUME NEW i \in Items, PromptStart(i) PROVE IInv'
  BY <1>3, PromptStartKeeps
<1>4. CASE UNCHANGED vars
  <2>1. /\ live' = live /\ disk' = disk /\ tx' = tx /\ calls' = calls /\ turn' = turn
        /\ wakes' = wakes /\ loading' = loading /\ asked' = asked /\ faults' = faults
        /\ stranded' = stranded
    BY <1>4 DEF vars
  <2>2. TypeOK'
    BY <2>1 DEF IInv, TypeOK
  <2>3. Kept' /\ CopiesCounted'
    BY <2>1, <2>2, MessagesMoved DEF IInv, Carries
  <2>4. QED
    BY <2>1, <2>2, <2>3, CallsStay, TurnStays DEF IInv, Protocol
<1>5. QED
  BY <1>1, <1>2, <1>3, <1>4, WakeStartKeeps, TurnGoesOnKeeps, TurnFailsKeeps, CrashKeeps
     DEF Next

(* What session.rs and agent.rs keep at every step of the calls, the turns and *)
(* the crashes: the inductive invariant of the module.                         *)
THEOREM InvariantHolds == Spec => []IInv
  BY Initially, Inductive, PTL DEF Spec

(* The variables keep their types. *)
THEOREM TypesHold == Spec => []TypeOK
<1>1. IInv => TypeOK
  BY DEF IInv
<1>2. QED
  BY <1>1, InvariantHolds, PTL

(* mutate_work and save: no save of an older snapshot replaces committed work. *)
THEOREM CommitsAreDurable == Spec => []CommittedIsStored
<1>1. IInv => CommittedIsStored
  BY DEF IInv, Stored, CommittedIsStored
<1>2. QED
  BY <1>1, InvariantHolds, PTL

(* deliver_pending_notifications: a notification marked delivered is in the    *)
(* agent's mailbox or trajectory, in memory and in the file, whatever failed.  *)
THEOREM DeliveryIsAtLeastOnce == Spec => []DeliveredIsKept
<1>1. IInv => DeliveredIsKept
  BY DEF IInv, Kept, KeepsDelivered, DeliveredIsKept
<1>2. QED
  BY <1>1, InvariantHolds, PTL

(* drain_pending_swarm_outbox, deliver_correlated and the mailbox's records:   *)
(* only a fault multiplies a message, and each fault at most once.             *)
THEOREM FaultsBoundTheCopies == Spec => []CopiesAreBounded
<1>1. IInv => CopiesAreBounded
  BY DEF IInv, CopiesCounted, Counted, CountedOf, CopiesAreBounded
<1>2. QED
  BY <1>1, InvariantHolds, PTL

(* An outbox entry and an input have one copy, whatever faults there are.      *)
THEOREM EntriesAndInputsOnce ==
  Spec => [](\A i \in Items : Kind[i] # "note" => Copies(live, i) <= 1)
<1>1. IInv => \A i \in Items : Kind[i] # "note" => Copies(live, i) <= 1
  BY KindOfItems DEF IInv, CopiesCounted, Counted, CountedOf
<1>2. QED
  BY <1>1, InvariantHolds, PTL

(* wake_mailbox and repair_dangling_tool_calls: no request goes to the provider *)
(* with an unanswered tool call.                                                *)
THEOREM RequestsAreWellFormed == Spec => []RequestIsWellFormed
<1>1. IInv => RequestIsWellFormed
  BY DEF IInv, Answered, RequestIsWellFormed
<1>2. QED
  BY <1>1, InvariantHolds, PTL

=============================================================================
