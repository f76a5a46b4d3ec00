-------------------------- MODULE TrajectoryLedger --------------------------
(***************************************************************************)
(* The ledger directory and the instances that append to it                 *)
(* (mcp/src/runtime/trajectory-ledger.ts, class TrajectoryLedger).          *)
(*                                                                         *)
(* A writer is one TrajectoryLedger instance with one append in flight: it  *)
(* reads the event files, then compares and perhaps repairs HEAD.json, then *)
(* decides, then links its event file exclusively, then rewrites HEAD.json. *)
(* Other writers, in the same process or not, run between any two of these  *)
(* steps; a step may fail with an I/O error and the process may die.        *)
(***************************************************************************)
EXTENDS TrajectoryLog

CONSTANTS
  Writers,           \* ledger instances over one directory
  MaxAppendRetries   \* maxAppendRetries

ASSUME WritersAssumption == MaxAppendRetries \in Nat \ {0}

\* The log of TrajectoryLog is here the event files of the directory, in sequence
\* order.
VARIABLES
  head,      \* the sequence HEAD.json names, NoTip while it is absent
  pc,        \* what each writer does next
  call,      \* the append call a writer serves, or served last
  seen,      \* the chain the writer has read
  attempt,   \* its retry count
  outcome    \* what its last append returned or threw

writerVars == <<pc, call, seen, attempt, outcome>>
vars == <<log, head, writerVars>>

Phases == {"idle", "scan", "compare", "repair", "decide", "publish"}

Refusals == {"DUPLICATE_EVENT_CONFLICT", "EXPECTED_TIP_MISMATCH", "TRAJECTORY_TERMINAL",
             "INVALID_EVENT", "EVENT_TOO_LARGE", "TOTAL_CAPACITY_EXHAUSTED", "LEDGER_TOO_LARGE",
             "FINALIZATION_CAPACITY_EXHAUSTED", "ORDINARY_CAPACITY_EXHAUSTED"}
Accepted == {"appended", "idempotent"}
Outcomes == {"none", "pending", "HEAD_CORRUPT", "CONCURRENT_APPEND_EXHAUSTED", "IO_ERROR"}
            \cup Accepted \cup Refusals

Init ==
  /\ log = <<>>
  /\ head = NoTip
  /\ pc = [w \in Writers |-> "idle"]
  /\ call \in {[w \in Writers |-> c] : c \in Calls}
  /\ seen = [w \in Writers |-> <<>>]
  /\ attempt = [w \in Writers |-> 0]
  /\ outcome = [w \in Writers |-> "none"]

-----------------------------------------------------------------------------

Goto(w, phase) == pc' = [pc EXCEPT ![w] = phase]

\* The append of w ends: it returns or throws.
Return(w, result) ==
  /\ Goto(w, "idle")
  /\ outcome' = [outcome EXCEPT ![w] = result]
  /\ seen' = [seen EXCEPT ![w] = <<>>]
  /\ attempt' = [attempt EXCEPT ![w] = 0]
  /\ UNCHANGED call

Verdict_(w) == Verdict(seen[w], call[w].input, call[w].expect)

\* A caller asks writer w to append.
Submit(w) ==
  /\ pc[w] = "idle"
  /\ call' \in {[call EXCEPT ![w] = c] : c \in Calls}
  /\ Goto(w, "scan")
  /\ attempt' = [attempt EXCEPT ![w] = 1]
  /\ outcome' = [outcome EXCEPT ![w] = "pending"]
  /\ UNCHANGED <<log, head, seen>>

\* reconstruct lists and reads the event files.
Scan(w) ==
  /\ pc[w] = "scan"
  /\ seen' = [seen EXCEPT ![w] = log]
  /\ Goto(w, "compare")
  /\ UNCHANGED <<log, head, call, attempt, outcome>>

\* Mutation of CompareHead: a lagging head is waited for, not repaired.
CompareHead_Waits(w) ==
  /\ pc[w] = "compare"
  /\ \/ /\ head = Len(seen[w])
        /\ Goto(w, "decide")
        /\ UNCHANGED <<call, seen, attempt, outcome>>
     \/ /\ head > Len(seen[w])
        /\ Return(w, "HEAD_CORRUPT")
  /\ UNCHANGED <<log, head>>

\* reconcileHead reads HEAD.json after the files have been read.
CompareHead(w) ==
  /\ pc[w] = "compare"
  /\ \/ /\ head = Len(seen[w])
        /\ Goto(w, "decide")
        /\ UNCHANGED <<call, seen, attempt, outcome>>
     \/ /\ head < Len(seen[w])      \* lagging, or absent
        /\ Goto(w, "repair")
        /\ UNCHANGED <<call, seen, attempt, outcome>>
     \/ /\ head > Len(seen[w])      \* names no prefix of what was read
        /\ Return(w, "HEAD_CORRUPT")
  /\ UNCHANGED <<log, head>>

\* Mutation of RepairHead: it names the sequence that is about to be linked.
RepairHead_Early(w) ==
  /\ pc[w] = "repair"
  /\ head' = Len(seen[w]) + 1
  /\ Goto(w, "decide")
  /\ UNCHANGED <<log, call, seen, attempt, outcome>>

RepairHead(w) ==
  /\ pc[w] = "repair"
  /\ head' = Len(seen[w])
  /\ Goto(w, "decide")
  /\ UNCHANGED <<log, call, seen, attempt, outcome>>

\* The chain that was read refuses the candidate, or has it already.
Refuse(w) ==
  /\ pc[w] = "decide"
  /\ Verdict_(w) # "append"
  /\ Return(w, Verdict_(w))
  /\ UNCHANGED <<log, head>>

\* Mutation of Link: the event file is renamed into place, over any other.
Link_Overwrites(w) ==
  /\ pc[w] = "decide"
  /\ Verdict_(w) = "append"
  /\ log' = Append(SubSeq(log, 1, Len(seen[w])), Stamp(seen[w], call[w].input))
  /\ Goto(w, "publish")
  /\ UNCHANGED <<head, call, seen, attempt, outcome>>

\* link() creates the event file of the next sequence: it is still free.
Link(w) ==
  /\ pc[w] = "decide"
  /\ Verdict_(w) = "append"
  /\ Len(log) = Len(seen[w])
  /\ log' = Append(log, Stamp(seen[w], call[w].input))
  /\ Goto(w, "publish")
  /\ UNCHANGED <<head, call, seen, attempt, outcome>>

\* Mutation of LoseRace: EEXIST is taken for the writer's own event.
LoseRace_ClaimsSuccess(w) ==
  /\ pc[w] = "decide"
  /\ Verdict_(w) = "append"
  /\ Len(log) > Len(seen[w])
  /\ Return(w, "appended")
  /\ UNCHANGED <<log, head>>

\* link() fails with EEXIST: another writer took the sequence.
LoseRace(w) ==
  /\ pc[w] = "decide"
  /\ Verdict_(w) = "append"
  /\ Len(log) > Len(seen[w])
  /\ IF call[w].expect # NoTip
       THEN Return(w, "EXPECTED_TIP_MISMATCH")
     ELSE IF attempt[w] < MaxAppendRetries
       THEN /\ attempt' = [attempt EXCEPT ![w] = @ + 1]
            /\ Goto(w, "scan")
            /\ UNCHANGED <<call, seen, outcome>>
     ELSE Return(w, "CONCURRENT_APPEND_EXHAUSTED")
  /\ UNCHANGED <<log, head>>

\* writeHead renames the new head into place; it never looks at the old one.
PublishHead(w) ==
  /\ pc[w] = "publish"
  /\ head' = Len(seen[w]) + 1
  /\ Return(w, "appended")
  /\ UNCHANGED log

\* writeHead ends before or after its rename.
HeadWriteCut(w) ==
  \/ UNCHANGED head
  \/ pc[w] = "repair" /\ head' = Len(seen[w])
  \/ pc[w] = "publish" /\ head' = Len(seen[w]) + 1

\* An I/O error ends the append where it is; after the link, the event stays.
FailIo(w) ==
  /\ pc[w] # "idle"
  /\ HeadWriteCut(w)
  /\ Return(w, "IO_ERROR")
  /\ UNCHANGED log

\* The process dies in the middle of an append: nobody learns the outcome.
Crash(w) ==
  /\ pc[w] # "idle"
  /\ HeadWriteCut(w)
  /\ Return(w, "none")
  /\ UNCHANGED log

Step(w) == \/ Scan(w) \/ CompareHead(w) \/ RepairHead(w) \/ Refuse(w)
           \/ Link(w) \/ LoseRace(w) \/ PublishHead(w)

Next == \E w \in Writers : Submit(w) \/ Step(w) \/ FailIo(w) \/ Crash(w)

Safe == Init /\ [][Next]_vars

\* An append that has started goes on: its file operations complete or fail.
Spec == Safe /\ \A w \in Writers : WF_vars(Step(w))

-----------------------------------------------------------------------------
(* Properties.                                                             *)

TypeOK ==
  /\ log \in Seq(Event)
  /\ head \in {NoTip} \cup Nat
  /\ pc \in [Writers -> Phases]
  /\ call \in [Writers -> Calls]
  /\ seen \in [Writers -> Seq(Event)]
  /\ attempt \in [Writers -> 0..MaxAppendRetries]
  /\ outcome \in [Writers -> Outcomes]

\* However their steps interleave, crash or fail, the writers together
\* behave as the atomic log: each committed event was decided on exactly the
\* chain it extends, so the stale reads of losers never reach the disk.
ImplementsLog == LogSpec

\* The advisory head never names an event that is not on disk, although
\* writers rewrite it without looking and may move it backwards.
HeadNamesPrefix == head <= Len(log)

\* An append that reported success is on disk, at the tip its caller fenced
\* on if it gave one, whatever the other writers did since.
AcknowledgedIsDurable ==
  \A w \in Writers : outcome[w] \in Accepted =>
     \E i \in DOMAIN log :
        /\ SemanticInput(log[i]) = call[w].input
        /\ outcome[w] = "appended" /\ call[w].expect # NoTip => i = call[w].expect + 1

\* Every append returns: losing races cannot keep a caller waiting.
EveryAppendReturns == \A w \in Writers : pc[w] # "idle" ~> pc[w] = "idle"

\* "linearizes racing instances with one winner and a contiguous retry": with
\* neither I/O errors nor a damaged directory, a race is won or retried and
\* never reported as a corrupt head.
RaceNeverCorrupts == \A w \in Writers : outcome[w] # "HEAD_CORRUPT"
=============================================================================
