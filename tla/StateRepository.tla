-------------------------- MODULE StateRepository --------------------------
(***************************************************************************)
(* FileSystemStateRepository under PipelineService: calls of several MCP    *)
(* servers that read, change and write one state file.  Calls of a process  *)
(* queue for the file; the first of a queue competes with other processes   *)
(* for a lock file that names its owner in a record written after the file  *)
(* exists, and a lock that is old and whose owner is dead is taken away in  *)
(* three steps between which others run.                                    *)
(*                                                                          *)
(* A file system call is one step.  The checks for symbolic links, sizes    *)
(* and schema are left out: the files are what this code wrote.             *)
(***************************************************************************)
EXTENDS PipelineService, FiniteSets

CONSTANTS Calls,       \* calls of PipelineService; bound: each is made once
          Processes,   \* the processes that make them
          Home,        \* the process of a call
          Asked,       \* the operations that a call may be
          Legacy,      \* states that an older version may have left in the file
          MaxFaults,   \* bound: file system errors
          MaxCrashes   \* bound: processes that die

ASSUME HomeAssumption == Home \in [Calls -> Processes] /\ Null \notin Calls
ASSUME AskedAssumption == Asked \in [Calls -> SUBSET Operation]
ASSUME LegacyAssumption == Legacy \subseteq PipelineState

ASSUME BoundAssumption == MaxFaults \in Nat /\ MaxCrashes \in Nat

VARIABLES file,      \* the state file: revision and state
          dir,       \* the directory .forgewright exists
          lock,      \* the lock file
          queues,    \* FileSystemStateRepository.queues of each process: the calls in order
          calls,     \* where each call stands in withLock, and what it knows
          alive,     \* the processes that run
          faults,    \* file system errors so far
          stores,    \* history: how often the state file was replaced
          told,      \* history: every entry that was ever appended to the state's history
          inherited, \* history: the state that was found in the file
          stolen     \* history: a lock was removed that is not the one read as a dead owner's

vars == <<file, dir, lock, queues, calls, alive, faults, stores, told, inherited, stolen>>

Free == [owner |-> Null, written |-> FALSE, aged |-> FALSE]

Step == {"idle", "queued", "mkdir", "contain", "stat", "open", "inspect", "recheck", "unlink",
         "record", "read", "mutate", "release", "done", "jammed", "dead"}
Holding == {"record", "read", "mutate", "release"}
Ended   == {"done", "jammed", "dead"}

Envelope == [revision : Nat, state : PipelineState \cup {Null}]

New == [at |-> "idle", found |-> Null, holds |-> FALSE,
        seen |-> [revision |-> 0, state |-> Null]]

\* The types of the variables.
TypeOK ==
  /\ file \in Envelope
  /\ dir \in BOOLEAN
  /\ lock \in [owner : Calls \cup {Null}, written : BOOLEAN, aged : BOOLEAN]
  /\ queues \in [Processes -> Seq(Calls)]
  /\ calls \in [Calls -> [at : Step, found : Calls \cup {Null}, holds : BOOLEAN, seen : Envelope]]
  /\ alive \subseteq Processes
  /\ faults \in Nat /\ stores \in Nat
  /\ told \in Seq(Operation)
  /\ inherited \in PipelineState \cup {Null}
  /\ stolen \in BOOLEAN

Init ==
  /\ file \in {[revision |-> 0, state |-> s] : s \in Legacy \cup {Null}}
  /\ dir = (file.state # Null)
  /\ lock = Free
  /\ queues = [p \in Processes |-> <<>>]
  /\ calls = [c \in Calls |-> New]
  /\ alive = Processes
  /\ faults = 0 /\ stores = 0 /\ stolen = FALSE
  /\ inherited = file.state
  /\ told = IF file.state = Null THEN <<>> ELSE file.state.history

storeVars   == <<file, stores, told, inherited>>
processVars == <<queues, alive, faults>>

Goto(c, step) == calls' = [calls EXCEPT ![c].at = step]

\* A call of a public method: it joins the queue of its process at once.
Begin(c) ==
  /\ calls[c].at = "idle" /\ Home[c] \in alive
  /\ Goto(c, "queued")
  /\ queues' = [queues EXCEPT ![Home[c]] = Append(@, c)]
  /\ UNCHANGED <<storeVars, dir, lock, alive, faults, stolen>>

(***************************************************************************)
(* ensureContained(true).  It comes after the wait for the queue and before *)
(* the try whose finally lets the next call go: what it throws rejects the  *)
(* call and leaves the queue of the process closed for ever.                *)
(***************************************************************************)
First(c) == queues[Home[c]] # <<>> /\ Head(queues[Home[c]]) = c

LookForDirectory(c) ==
  /\ calls[c].at = "queued" /\ First(c)
  /\ Goto(c, IF dir THEN "contain" ELSE "mkdir")
  /\ UNCHANGED <<storeVars, processVars, dir, lock, stolen>>

MakeDirectory(c) ==
  /\ calls[c].at = "mkdir"
  /\ dir' = TRUE
  /\ Goto(c, IF dir THEN "jammed" ELSE "contain")
  /\ UNCHANGED <<storeVars, processVars, lock, stolen>>

LookForLock(c) ==
  /\ calls[c].at = "contain"
  /\ Goto(c, IF lock = Free THEN "open" ELSE "stat")
  /\ UNCHANGED <<storeVars, processVars, dir, lock, stolen>>

StatLock(c) ==
  /\ calls[c].at = "stat"
  /\ Goto(c, IF lock = Free THEN "jammed" ELSE "open")
  /\ UNCHANGED <<storeVars, processVars, dir, lock, stolen>>

(***************************************************************************)
(* The loop that acquires the lock, with removeStaleLock.                   *)
(***************************************************************************)

\* Mutation of OpenLock: the file is opened without the flag that refuses an existing one.
OpenLock_Shared(c) ==
  /\ calls[c].at = "open"
  /\ lock' = [Free EXCEPT !.owner = c]
  /\ calls' = [calls EXCEPT ![c].at = "record", ![c].holds = TRUE]
  /\ UNCHANGED <<storeVars, processVars, dir, stolen>>
OpenLock(c) ==
  /\ calls[c].at = "open"
  /\ IF lock = Free
     THEN /\ lock' = [Free EXCEPT !.owner = c]
          /\ calls' = [calls EXCEPT ![c].at = "record", ![c].holds = TRUE]
     ELSE Goto(c, "inspect") /\ UNCHANGED lock
  /\ UNCHANGED <<storeVars, processVars, dir, stolen>>

\* The record is written, or the write fails and leaves a part of it.
WriteRecord(c) ==
  /\ calls[c].at = "record"
  /\ \/ /\ lock' = IF lock.owner = c THEN [lock EXCEPT !.written = TRUE] ELSE lock
        /\ Goto(c, "read")
        /\ UNCHANGED faults
     \/ /\ faults < MaxFaults
        /\ faults' = faults + 1
        /\ Goto(c, "release")
        /\ UNCHANGED lock
  /\ UNCHANGED <<storeVars, dir, queues, alive, stolen>>

\* Mutation of Occupied: an old lock is stale even when its owner lives.
Occupied_Young == lock # Free /\ ~lock.aged

\* removeStaleLock finds nothing to remove: the lock is young, or its owner lives.
Occupied == lock # Free /\ (~lock.aged \/ (lock.written /\ Home[lock.owner] \in alive))

\* An old lock without a whole record is an error.
Inspect(c) ==
  /\ calls[c].at = "inspect"
  /\ calls' = IF lock = Free \/ Occupied THEN [calls EXCEPT ![c].at = "open"]
              ELSE IF ~lock.written THEN [calls EXCEPT ![c].at = "release"]
              ELSE [calls EXCEPT ![c].at = "recheck", ![c].found = lock.owner]
  /\ UNCHANGED <<storeVars, processVars, dir, lock, stolen>>

Replaced(c) == lock # Free /\ lock.owner # calls[c].found

Recheck(c) ==
  /\ calls[c].at = "recheck"
  /\ calls' = IF lock = Free \/ Replaced(c)
              THEN [calls EXCEPT ![c].at = "open", ![c].found = Null]
              ELSE [calls EXCEPT ![c].at = "unlink"]
  /\ UNCHANGED <<storeVars, processVars, dir, lock, stolen>>

\* The lock is occupied or was replaced, and the deadline has passed.
TimeOut(c) ==
  /\ \/ calls[c].at = "inspect" /\ Occupied
     \/ calls[c].at = "recheck" /\ Replaced(c)
  /\ Goto(c, "release")
  /\ UNCHANGED <<storeVars, processVars, dir, lock, stolen>>

Unlink(c) ==
  /\ calls[c].at = "unlink"
  /\ lock' = Free
  /\ stolen' = (stolen \/ Replaced(c))
  /\ calls' = [calls EXCEPT ![c].at = "open", ![c].found = Null]
  /\ UNCHANGED <<storeVars, processVars, dir>>

\* Time passes.
AgeLock ==
  /\ lock # Free /\ ~lock.aged
  /\ lock' = [lock EXCEPT !.aged = TRUE]
  /\ UNCHANGED <<storeVars, processVars, dir, calls, stolen>>

(***************************************************************************)
(* The transaction.  The mutator is awaited, so the state it works on was   *)
(* read a step before; the file is replaced by a rename, after which the    *)
(* mode and the directory are still set and synced.                         *)
(***************************************************************************)
ReadState(c) ==
  /\ calls[c].at = "read"
  /\ calls' = [calls EXCEPT ![c].at = "mutate", ![c].seen = file]
  /\ UNCHANGED <<storeVars, processVars, dir, lock, stolen>>

Candidate(c, op, gate) == Mutated(op, gate, normalizeState(calls[c].seen.state))

Replace(c, op, gate) ==
  /\ file' = [revision |-> calls[c].seen.revision + 1, state |-> Candidate(c, op, gate)]
  /\ stores' = stores + 1
  /\ told' = IF op = "update" THEN told ELSE Append(told, op)
  /\ UNCHANGED inherited

\* Refused by the mutator; or stored; or an error before or after the rename.
WriteState(c) ==
  /\ calls[c].at = "mutate"
  /\ \E op \in Asked[c], gate \in BOOLEAN :
       /\ gate => op = "requestGate"
       /\ \/ Candidate(c, op, gate) = Null /\ UNCHANGED <<storeVars, faults>>
          \/ Candidate(c, op, gate) # Null /\ Replace(c, op, gate) /\ UNCHANGED faults
          \/ /\ Candidate(c, op, gate) # Null /\ faults < MaxFaults
             /\ faults' = faults + 1
             /\ Replace(c, op, gate) \/ UNCHANGED storeVars
  /\ calls' = [calls EXCEPT ![c].at = "release", ![c].seen = New.seen]
  /\ UNCHANGED <<dir, lock, queues, alive, stolen>>

\* Mutation of Release: after an error the queue is not let go.
Release_OnlyHolders(c) ==
  /\ calls[c].at = "release"
  /\ lock' = IF calls[c].holds /\ lock.owner = c /\ lock.written THEN Free ELSE lock
  /\ queues' = IF calls[c].holds THEN [queues EXCEPT ![Home[c]] = Tail(@)] ELSE queues
  /\ calls' = [calls EXCEPT ![c] = [New EXCEPT !.at = "done"]]
  /\ UNCHANGED <<storeVars, dir, alive, faults, stolen>>
\* The finally: the lock goes when its content is this call's record, the queue moves on.
Release(c) ==
  /\ calls[c].at = "release"
  /\ lock' = IF calls[c].holds /\ lock.owner = c /\ lock.written THEN Free ELSE lock
  /\ queues' = [queues EXCEPT ![Home[c]] = Tail(@)]
  /\ calls' = [calls EXCEPT ![c] = [New EXCEPT !.at = "done"]]
  /\ UNCHANGED <<storeVars, dir, alive, faults, stolen>>

Crash(p) ==
  /\ p \in alive
  /\ Cardinality(Processes \ alive) < MaxCrashes
  /\ alive' = alive \ {p}
  /\ calls' = [c \in Calls |-> IF Home[c] = p THEN [New EXCEPT !.at = "dead"] ELSE calls[c]]
  /\ queues' = [queues EXCEPT ![p] = <<>>]
  /\ UNCHANGED <<storeVars, dir, lock, faults, stolen>>

Program(c) ==
  \/ LookForDirectory(c) \/ MakeDirectory(c) \/ LookForLock(c) \/ StatLock(c)
  \/ OpenLock(c) \/ WriteRecord(c)
  \/ Inspect(c) \/ Recheck(c) \/ TimeOut(c) \/ Unlink(c)
  \/ ReadState(c) \/ WriteState(c) \/ Release(c)

Next ==
  \/ \E c \in Calls : Begin(c) \/ Program(c)
  \/ AgeLock
  \/ \E p \in Processes : Crash(p)

Safe == Init /\ [][Next]_vars

\* A process goes on with each of its calls, and a call that looks at an occupied lock again
\* and again does so past its deadline (lockTimeoutMs) in the end.
Spec == Safe /\ \A c \in Calls : WF_vars(Program(c)) /\ SF_vars(TimeOut(c))

(***************************************************************************)
(* Properties.                                                              *)
(***************************************************************************)

IsTail(history, all) ==
  /\ Len(history) = IF Len(all) > MaxHistory THEN MaxHistory ELSE Len(all)
  /\ \A i \in 1 .. Len(history) : history[i] = all[Len(all) - Len(history) + i]

\* No update is lost: the revision counts every replacement of the file, and the history it
\* holds is the end of all that was ever appended (withLock, transact, trimHistory) -- unless
\* two processes took away the same dead owner's lock and one of them removed the next one.
NothingLost ==
  stolen \/ /\ file.revision = stores
            /\ stores > 0 => IsTail(file.state.history, told)

\* What the calls put in the file has the list of phases in step with the phase and the status,
\* and no quality gate outlives the wait for its approval (PipelineService's mutators) -- if the
\* state found there is in step once it is normalised.  One of a completed pipeline that lists
\* no phases is not: normalizeState says that its last phase runs, and an update keeps that.
FoundInStep == Agrees(normalizeState(inherited))

PhasesAgree == file.revision > 0 /\ FoundInStep => Agrees(file.state)

Waiting(f) == f.state # Null /\ f.state.status = "WAITING_FOR_GATE"

\* A pending gate ends only by an approval, a failure or a new start, whatever other calls
\* and processes do meanwhile (advancePhase, "You cannot advance the phase yet").
GateHolds ==
  [][stolen \/ (Waiting(file) /\ ~Waiting(file')
       => told'[Len(told')] \in {"approveGate", "fail", "start"})]_file

Jammed(p)  == \E c \in Calls : Home[c] = p /\ calls[c].at = "jammed"
Settled(c) == calls[c].at \in Ended \cup {"idle"} \/ Jammed(Home[c])

\* No call waits for ever, whoever crashes or fails before it, unless the containment check
\* of an earlier call of its process threw and left the queue closed (withLock): as a call is
\* made once, the time comes when all that were made have settled.
CallsSettle == []<>(\A c \in Calls : Settled(c))
=============================================================================
