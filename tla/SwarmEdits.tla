------------------------------ MODULE SwarmEdits ------------------------------
(***************************************************************************)
(* The built-in edit tool beside the swarm's claims: apply_patch of         *)
(* crates/core/src/tools/edit.rs, the edit authority of                     *)
(* crates/core/src/edit_coordination.rs, which all sessions of a daemon     *)
(* share, and lock_swarm_edits of the session.                              *)
(*                                                                         *)
(* An editor reads its files, reserves them all at the authority, takes the *)
(* lock of its session, checks the claims and that the files still read the *)
(* same, writes them one by one, publishes the change and commits.          *)
(* Editors that edit for no agent of the graph are of other sessions: they  *)
(* meet neither the claims nor the lock.  A shell or a user also writes     *)
(* files, with no regard for any of this.                                   *)
(*                                                                         *)
(* Abstractions.  A file holds a version, a number no two writers share.    *)
(* Undo, artifacts, a crash of the daemon and the writer leases of other    *)
(* daemons are left out.                                                    *)
(***************************************************************************)
EXTENDS Swarm, FiniteSets

CONSTANTS
    AgentOf,     \* the agent an editor edits for, Nobody for other sessions
    MaxEdits,    \* bound: edits made
    MaxUses,     \* bound: all these and claims, requests and transfers together
    MaxOutside,  \* bound: writes by a shell or a user
    MaxFaults    \* bound: failed writes, publications and commits

ASSUME EditAssumption == /\ AgentOf \in [Editors -> Agents \cup {Nobody}]
                         /\ {MaxEdits, MaxUses, MaxOutside, MaxFaults} \subseteq Nat

VARIABLES content,     \* the version each file holds
          generation,  \* per file, the authority sequence of its last commit
          sequence,    \* commits so far
          edits,       \* what each editor is doing
          used         \* how often each bound was drawn on, and versions given

editing_vars == <<content, generation, sequence, edits, used>>
vars == <<swarm, editing_vars>>

Stages == {"idle", "snapshot", "capture", "acquire", "parked", "check", "write", "finish"}
Holding == {"check", "write", "finish"}
Changing == {"write", "finish"}

Unread == [f \in Files |-> 0]
Idle == [stage |-> "idle", paths |-> {}, begin |-> 0, snap |-> Unread, base |-> Unread,
         done |-> {}, new |-> 0, disturbed |-> {}]

EditType == [stage: Stages,
             paths: SUBSET Files,
             begin: Nat,               \* the authority's sequence at the start
             snap: [Files -> Nat],     \* what a rollback restores
             base: [Files -> Nat],     \* what the edit was made for
             done: SUBSET Files,       \* written so far
             new: Nat,                 \* the version it writes
             disturbed: SUBSET Files]  \* written by outsiders since the check

EditsTypeOK == /\ content \in [Files -> Nat] /\ generation \in [Files -> Nat]
               /\ sequence \in Nat
               /\ edits \in [Editors -> EditType]
               /\ used \in [edits: Nat, outside: Nat, faults: Nat, version: Nat]

EditsInit == /\ Init
             /\ content = Unread /\ generation = Unread /\ sequence = 0
             /\ edits = [e \in Editors |-> Idle]
             /\ used = [edits |-> 0, outside |-> 0, faults |-> 0, version |-> 0]

-----------------------------------------------------------------------------

Inside(e) == AgentOf[e] # Nobody
At(e, stage) == edits[e].stage = stage

Goes(e, stage) == edits' = [edits EXCEPT ![e].stage = stage]

\* Mutant: nobody is told.
EndsSilently(e) ==
  /\ edits' = [edits EXCEPT ![e] = Idle]
  /\ editing' = IF editing = e THEN Free ELSE editing
  /\ UNCHANGED <<policy, fences, claims, requests, transfers>>

\* An edit that ends tells everyone parked on its files (notify_waiters), and
\* leaves the lock of the session.
Ends(e) ==
  /\ edits' = [o \in Editors |->
        IF o = e THEN Idle
        ELSE IF At(o, "parked") /\ edits[e].stage \in Holding
             THEN [edits[o] EXCEPT !.stage = "acquire"] ELSE edits[o]]
  /\ editing' = IF editing = e THEN Free ELSE editing
  /\ UNCHANGED <<policy, fences, claims, requests, transfers>>

\* prepare: the attempt is registered before any file is read.
Prepare(e, paths) ==
  /\ At(e, "idle") /\ paths # {} /\ used.edits < MaxEdits
  /\ edits' = [edits EXCEPT ![e] = [Idle EXCEPT !.stage = "snapshot", !.paths = paths,
                                                !.begin = sequence]]
  /\ used' = [used EXCEPT !.edits = @ + 1]
  /\ UNCHANGED <<swarm, content, generation, sequence>>

Snapshot(e) ==
  /\ At(e, "snapshot")
  /\ edits' = [edits EXCEPT ![e].stage = "capture", ![e].snap = content]
  /\ UNCHANGED <<swarm, content, generation, sequence, used>>

Capture(e) ==
  /\ At(e, "capture")
  /\ edits' = [edits EXCEPT ![e].stage = "acquire", ![e].base = content]
  /\ UNCHANGED <<swarm, content, generation, sequence, used>>

Stale(e) == \E f \in edits[e].paths : generation[f] > edits[e].begin

\* Mutant: an authority of each session.
TakenHere(e) == \E o \in Editors \ {e} :
                   /\ edits[o].stage \in Holding /\ edits[o].paths \cap edits[e].paths # {}
                   /\ Inside(o) <=> Inside(e)

Taken(e) == \E o \in Editors \ {e} :
               edits[o].stage \in Holding /\ edits[o].paths \cap edits[e].paths # {}

\* try_acquire: all files or none.  A file that was committed since the start
\* ends the edit, a reserved one makes it wait.
Acquire(e) ==
  /\ At(e, "acquire")
  /\ \/ Stale(e) /\ Ends(e)
     \/ ~Stale(e) /\ Taken(e) /\ Goes(e, "parked") /\ UNCHANGED swarm
     \/ ~Stale(e) /\ ~Taken(e) /\ Goes(e, "check") /\ UNCHANGED swarm
  /\ UNCHANGED <<content, generation, sequence, used>>

\* foreign_mutation_conflict, for one that edits under the protective policy.
ForeignClaims(e) ==
  {c \in Claims : /\ Held(c)
                  /\ claims[c].owner \notin Bindings(AgentOf[e])
                  /\ claims[c].resource.files \cap edits[e].paths # {}}

\* Mutant: the claims are left to the start of the edit.
RefusedByFiles(e) == Stale(e) \/ \E f \in edits[e].paths : content[f] # edits[e].base[f]

Refused(e) == \/ Stale(e)
              \/ Inside(e) /\ policy = "Protective" /\ ForeignClaims(e) # {}
              \/ \E f \in edits[e].paths : content[f] # edits[e].base[f]

\* With the lock taken: the claims and the content are checked a last time.
Check(e) ==
  /\ At(e, "check")
  /\ Inside(e) => editing = Free
  /\ \/ Refused(e) /\ Ends(e) /\ UNCHANGED used
     \/ /\ ~Refused(e)
        /\ editing' = IF Inside(e) THEN e ELSE editing
        /\ used' = [used EXCEPT !.version = @ + 1]
        /\ edits' = [edits EXCEPT ![e].stage = "write", ![e].new = used.version + 1]
        /\ UNCHANGED <<policy, fences, claims, requests, transfers>>
  /\ UNCHANGED <<content, generation, sequence>>

\* A user's interrupt ends an edit that waits or is about to check.
Cancel(e) == /\ edits[e].stage \in {"parked", "check"}
             /\ Ends(e)
             /\ UNCHANGED <<content, generation, sequence, used>>

\* Mutant: what was written stays.
GiveUp(e) ==
  /\ used.faults < MaxFaults /\ used' = [used EXCEPT !.faults = @ + 1]
  /\ Ends(e)
  /\ UNCHANGED <<content, generation, sequence>>

\* rollback_files restores every file, written or not, to what the snapshot
\* held of it.
RollBack(e) ==
  /\ used.faults < MaxFaults /\ used' = [used EXCEPT !.faults = @ + 1]
  /\ content' = [f \in Files |-> IF f \in edits[e].paths THEN edits[e].snap[f] ELSE content[f]]
  /\ Ends(e)
  /\ UNCHANGED <<generation, sequence>>

Write(e) ==
  /\ At(e, "write")
  /\ \/ RollBack(e)
     \/ \E f \in edits[e].paths \ edits[e].done :
          LET done == edits[e].done \cup {f} IN
          /\ content' = [content EXCEPT ![f] = edits[e].new]
          /\ edits' = [edits EXCEPT ![e].done = done,
                         ![e].stage = IF done = edits[e].paths THEN "finish" ELSE @]
          /\ UNCHANGED <<swarm, generation, sequence, used>>

\* The change is published and committed; either may fail.
Finish(e) ==
  /\ At(e, "finish")
  /\ \/ RollBack(e)
     \/ /\ sequence' = sequence + 1
        /\ generation' = [f \in Files |-> IF f \in edits[e].paths THEN sequence + 1
                                          ELSE generation[f]]
        /\ Ends(e)
        /\ UNCHANGED <<content, used>>

\* A shell or a user writes a file.
Outside(f) ==
  /\ used.outside < MaxOutside
  /\ used' = [used EXCEPT !.outside = @ + 1, !.version = @ + 1]
  /\ content' = [content EXCEPT ![f] = used.version + 1]
  /\ edits' = [e \in Editors |->
        IF edits[e].stage \in Changing
        THEN [edits[e] EXCEPT !.disturbed = @ \cup {f}] ELSE edits[e]]
  /\ UNCHANGED <<swarm, generation, sequence>>

EditStep(e) == Snapshot(e) \/ Capture(e) \/ Acquire(e) \/ Check(e) \/ Write(e) \/ Finish(e)

\* How much of MaxUses is drawn: an edit, of many steps, counts twice.
Uses == Cardinality({c \in Claims : claims[c].phase # "None"})
        + Cardinality({q \in Requests : requests[q].phase # "None"})
        + Cardinality({t \in Transfers : transfers[t].phase # "None"})
        + 2 * used.edits + used.outside

Next == \/ SwarmNext /\ UNCHANGED editing_vars /\ Uses' <= MaxUses
        \/ \E e \in Editors :
             \/ EditStep(e) \/ Cancel(e)
             \/ \E paths \in SUBSET Files : Prepare(e, paths) /\ Uses' <= MaxUses
        \/ \E f \in Files : Outside(f) /\ Uses' <= MaxUses

Spec == EditsInit /\ [][Next]_vars

\* The task of an edit runs on; users, agents and shells need not act.
Fairness == \A e \in Editors : WF_vars(EditStep(e))

FairSpec == Spec /\ Fairness

-----------------------------------------------------------------------------

\* Under the protective policy no file is written that an assignment other than
\* the writer's has claimed: claims and policy stand still from the check of an
\* edit to its end, though assignments end in the meantime.
NoForeignWrite ==
  \A e \in Editors :
    edits[e].stage \in Changing /\ Inside(e) /\ policy = "Protective" =>
      ForeignClaims(e) = {}

\* No edit is lost: what an edit is about to overwrite is what it was made for,
\* and what it has written is still there, unless an outsider interfered after
\* the check.
NoLostUpdate ==
  \A e \in Editors : edits[e].stage \in Changing =>
    \A f \in edits[e].paths \ edits[e].disturbed :
      content[f] = IF f \in edits[e].done THEN edits[e].new ELSE edits[e].base[f]

\* A failed edit leaves its files as it found them, if they did not change while
\* it read them and no outsider interfered.
FailedEditIsUndone ==
  [][\A e \in Editors : edits[e].stage \in Changing /\ edits'[e].stage = "idle"
                        /\ sequence' = sequence =>
       \A f \in edits[e].paths \ edits[e].disturbed :
         edits[e].snap[f] = edits[e].base[f] => content'[f] = edits[e].base[f]]_vars

\* No edit waits for ever for files or for the lock.
EditsEnd == \A e \in Editors : ~At(e, "idle") ~> At(e, "idle")
=============================================================================
