--------------------------- MODULE LifecycleLease ---------------------------
(***************************************************************************)
(* LifecycleLeaseStore: the lease files through which MCP server processes  *)
(* know of each other.  A server owns one lease, named here by the server;  *)
(* a handoff, a release and a reap of it run under its lock file, created   *)
(* exclusively and carrying no owner.  A reap looks at the process with ps, *)
(* and stops an expired one with SIGTERM and, after a grace, SIGKILL.       *)
(*                                                                          *)
(* A process is its own identity (pid, start, group, parent, command); its  *)
(* pid may be one that a dead process had.  A look may come back empty      *)
(* though the process lives, when ps fails.  A look and the signal sent on  *)
(* it are one step here; in the code inspect awaits the parent's start      *)
(* after it has the pid's own fields, and the signal comes later still, so  *)
(* who has the pid may have changed by then.                                *)
(*                                                                          *)
(* Any file operation may fail: one that ends a call before the lock, a     *)
(* read (taken for a lease that is not there), a write before or after its  *)
(* rename, and the removal of the lock.  MaxFaults bounds those and the     *)
(* looks that miss.                                                         *)
(***************************************************************************)
EXTENDS Naturals, FiniteSets

CONSTANTS Servers,      \* the server processes, in the order of their starts
          MaxHandoffs,  \* bound: handoffs of one lease
          MaxFaults     \* bound: looks that miss a living process, file operations that fail

ASSUME ServersAssumption == Servers \subseteq Nat
ASSUME BoundsAssumption  == MaxHandoffs \in Nat /\ MaxFaults \in Nat

Nobody == 0
ASSUME NobodyAssumption  == Nobody \notin Servers

VARIABLES leases,    \* the lease file of each server
          locks,     \* the leases whose lock file exists
          calls,     \* the call of the store that each server is making
          expired,   \* the leases past their expiry
          alive,     \* the processes that run
          pids,      \* the pid of each process
          sigterms,  \* the processes with a SIGTERM to be delivered
          signals,   \* history: what was sent, by which reap, to which process
          reaped,    \* history: the leases a reap closed
          blind,     \* history: looks that missed
          faults     \* history: file operations that failed

storeVars == <<leases, locks, calls, sigterms, alive, signals, reaped, blind>>
leaseVars == <<storeVars, expired, pids, faults>>

(***************************************************************************)
(* Lease files and calls                                                    *)
(***************************************************************************)

Abstract == INSTANCE LeaseRecord WITH record <- leases

Lease == [status : {"none", "open", "closed"}, token : Nat, version : Nat]

\* The steps of a call: before the lock, under it, and when it has answered.
Waiting  == {"lock"}
Critical == {"read", "write", "look", "term", "grace", "kill", "final", "unlock"}

Results == {"", "released", "handed_over", "reaped", "dead_reclaimed", "unowned",
            "owner_mismatch", "version_mismatch", "closed", "identity_mismatch",
            "not_expired", "lease_lock_timeout", "io_error"}

Call == [op : {"none", "handoff", "release", "reap"},
         at : {"idle", "done"} \cup Waiting \cup Critical,
         of : Servers \cup {Nobody}, token : Nat, version : Nat,
         seen : Lease, result : Results]

Idle == [op |-> "none", at |-> "idle", of |-> Nobody, token |-> 0, version |-> 0,
         seen |-> Abstract!Unleased, result |-> ""]

Begun(op, l, token, version) ==
  [Idle EXCEPT !.op = op, !.at = "lock", !.of = l, !.token = token, !.version = version]

\* A call goes to a step, with the answer it will give if it has one.
Moves(s, step, result) ==
  calls' = [calls EXCEPT ![s] = [@ EXCEPT !.at = step, !.result = result]]

GoTo(s, step)     == Moves(s, step, "")
Answer(s, result) == Moves(s, "unlock", result)

\* An owner takes the answer of its call.  What a reap answers or throws, a
\* reconciliation only logs.
Ended(s, result) ==
  calls' = [calls EXCEPT ![s] = IF @.op = "reap" THEN Idle
                                ELSE [@ EXCEPT !.at = "done", !.result = result]]

\* The process ps shows under the pid of a lease's process.
Occupant(l) == IF \E t \in alive : pids[t] = pids[l]
               THEN CHOOSE t \in alive : pids[t] = pids[l]
               ELSE Nobody

\* A look at the pid sees who has it, or misses him.
Looks(l, saw) == \/ saw = Occupant(l) /\ blind' = blind
                 \/ saw = Nobody /\ Occupant(l) # Nobody /\ blind + faults < MaxFaults
                    /\ blind' = blind + 1

\* What the history keeps of a signal: whether the reap had the lease's token.
Signal == [by : Servers, lease : Servers, owner : BOOLEAN,
           sig : {"SIGTERM", "SIGKILL"}, hit : Servers \cup {Nobody}]

TypeOK == /\ leases \in [Servers -> Lease]
          /\ locks \subseteq Servers
          /\ calls \in [Servers -> Call]
          /\ expired \subseteq Servers
          /\ alive \subseteq Servers
          /\ pids \in [Servers -> Servers]
          /\ sigterms \subseteq Servers
          /\ signals \subseteq Signal
          /\ reaped \subseteq Servers
          /\ blind \in 0..MaxFaults
          /\ faults \in 0..MaxFaults

(***************************************************************************)
(* What a call under the lock may rely on                                   *)
(***************************************************************************)

\* A call under a lease's lock is the only one there, and what it has read of
\* the lease is what the file says until it writes: the crash of a process that
\* held the lock leaves it locked, never open to two.
LockOwned ==
  \A s \in Servers : calls[s].at \in Critical =>
    /\ calls[s].of \in locks
    /\ \A t \in Servers \ {s} : calls[t].at \in Critical => calls[t].of # calls[s].of
    /\ calls[s].at \notin {"read", "unlock"} =>
         /\ calls[s].seen = leases[calls[s].of]
         /\ calls[s].seen.status = "open"

LeaseInit == /\ leases = [s \in Servers |-> Abstract!Unleased]
             /\ locks = {}
             /\ calls = [s \in Servers |-> Idle]
             /\ expired = {}
             /\ alive = {}
             /\ pids = [s \in Servers |-> s]
             /\ sigterms = {}
             /\ signals = {}
             /\ reaped = {}
             /\ blind = 0
             /\ faults = 0

(***************************************************************************)
(* acquire, and the lock of the other operations                            *)
(***************************************************************************)

\* A new lease has a name of its own: acquire takes no lock.  This is the write
\* that came to its rename, whether the sync of the directory then fails or not.
acquire(s) == /\ leases' = [leases EXCEPT ![s] = Abstract!Granted]
              /\ UNCHANGED <<locks, calls, sigterms, alive, signals, reaped, blind>>

Begin(s, op, l, token, version) ==
  /\ calls[s] = Idle
  /\ calls' = [calls EXCEPT ![s] = Begun(op, l, token, version)]
  /\ UNCHANGED <<leases, locks, sigterms, alive, signals, reaped, blind>>

\* Mutation of TakeLock: the lock file is opened without O_EXCL.
TakeLock_Shared(s) ==
  /\ calls[s].at = "lock"
  /\ locks' = locks \cup {calls[s].of}
  /\ GoTo(s, "read")
  /\ UNCHANGED <<leases, sigterms, alive, signals, reaped, blind>>

TakeLock(s) ==
  /\ calls[s].at = "lock"
  /\ calls[s].of \notin locks
  /\ locks' = locks \cup {calls[s].of}
  /\ GoTo(s, "read")
  /\ UNCHANGED <<leases, sigterms, alive, signals, reaped, blind>>

\* Mutation of LockTimeout: a lock is waited for as long as it takes.
LockTimeout_Never(s) == FALSE /\ UNCHANGED storeVars /\ s = s

\* The attempts are counted and so are the milliseconds between them: whoever
\* has the lock, or nobody who lives, the call ends.
LockTimeout(s) ==
  /\ calls[s].at = "lock"
  /\ calls[s].of \in locks
  /\ Ended(s, "lease_lock_timeout")
  /\ UNCHANGED <<leases, locks, sigterms, alive, signals, reaped, blind>>

Unlock(s) ==
  /\ calls[s].at = "unlock"
  /\ locks' = locks \ {calls[s].of}
  /\ Ended(s, calls[s].result)
  /\ UNCHANGED <<leases, sigterms, alive, signals, reaped, blind>>

\* The lease as a call reads it takes the call to its next step, with the
\* answer it has in mind, or ends it.
Proceed(s, refusal, next, result) ==
  LET lease == leases[calls[s].of] IN
  /\ IF refusal = ""
     THEN calls' = [calls EXCEPT ![s].at = next, ![s].seen = lease,
                                 ![s].version = lease.version, ![s].result = result]
     ELSE Answer(s, refusal)
  /\ UNCHANGED <<leases, locks, sigterms, alive, signals, reaped, blind>>

\* What a write makes of the lease the call has read.
Store(s, lease, result) ==
  /\ leases' = [leases EXCEPT ![calls[s].of] = lease]
  /\ Answer(s, result)
  /\ UNCHANGED <<locks, sigterms, alive, signals, blind>>

(***************************************************************************)
(* handoff and release                                                      *)
(***************************************************************************)

OwnerRefusal(c, lease) ==
  IF lease.status = "none" THEN "unowned"
  ELSE IF lease.token # c.token THEN "owner_mismatch"
  ELSE IF lease.version # c.version THEN "version_mismatch"
  ELSE IF lease.status = "closed" THEN "closed" ELSE ""

ReadByOwner(s) ==
  /\ calls[s].at = "read" /\ calls[s].op \in {"handoff", "release"}
  /\ Proceed(s, OwnerRefusal(calls[s], leases[calls[s].of]), "write", "")

\* The writes of the three operations, each with what the call answers then.
handoff(s, answer) ==
  /\ calls[s].at = "write" /\ calls[s].op = "handoff"
  /\ Store(s, Abstract!HandedOver(calls[s].seen), answer)
  /\ UNCHANGED reaped

release(s, answer) ==
  /\ calls[s].at = "write" /\ calls[s].op = "release"
  /\ Store(s, Abstract!Closed(calls[s].seen), answer)
  /\ UNCHANGED reaped

(***************************************************************************)
(* reap                                                                     *)
(***************************************************************************)

\* No lease of this program counts work in flight: acquire is never told of any.
ReapRefusal(c, lease) ==
  IF lease.status = "none" THEN "unowned"
  ELSE IF lease.token # c.token THEN "owner_mismatch"
  ELSE IF lease.status = "closed" THEN "closed" ELSE ""

ReadByReaper(s) ==
  /\ calls[s].at = "read" /\ calls[s].op = "reap"
  /\ Proceed(s, ReapRefusal(calls[s], leases[calls[s].of]), "look", "")

LookAtOwner(s, saw) ==
  /\ calls[s].at = "look"
  /\ Looks(calls[s].of, saw)
  /\ IF saw = Nobody THEN Moves(s, "write", "dead_reclaimed")
     ELSE IF saw # calls[s].of THEN Answer(s, "identity_mismatch")
     ELSE IF saw \notin expired THEN Answer(s, "not_expired")
     ELSE GoTo(s, "term")
  /\ UNCHANGED <<leases, locks, sigterms, alive, signals, reaped>>

\* Mutation of TargetRefusal: the process is whoever has the pid now.
TargetRefusal_AnyProcess(c, lease, saw) ==
  IF lease.token # c.token \/ lease.version # c.version THEN "owner_mismatch"
  ELSE IF lease.status # "open" THEN "closed" ELSE ""

TargetRefusal(c, lease, saw) ==
  IF lease.token # c.token \/ lease.version # c.version THEN "owner_mismatch"
  ELSE IF lease.status # "open" THEN "closed"
  ELSE IF saw # c.of THEN "identity_mismatch" ELSE ""

Sent(s, sig) ==
  LET c == calls[s] IN
  signals' = signals \cup {[by |-> s, lease |-> c.of, sig |-> sig, hit |-> Occupant(c.of),
                            owner |-> leases[c.of].token = c.token]}

SendTerm(s, saw) ==
  LET c == calls[s]
      refusal == TargetRefusal(c, leases[c.of], saw)
  IN /\ c.at = "term"
     /\ Looks(c.of, saw)
     /\ IF refusal = ""
        THEN /\ GoTo(s, "grace")
             /\ Sent(s, "SIGTERM")
             /\ sigterms' = sigterms \cup ({Occupant(c.of)} \ {Nobody})
        ELSE Answer(s, refusal) /\ UNCHANGED <<signals, sigterms>>
     /\ UNCHANGED <<leases, locks, alive, reaped>>

\* After the grace: nobody has the pid, or somebody, whoever that is.
LookAfterTerm(s, saw) ==
  /\ calls[s].at = "grace"
  /\ Looks(calls[s].of, saw)
  /\ GoTo(s, IF saw = Nobody THEN "final" ELSE "kill")
  /\ UNCHANGED <<leases, locks, sigterms, alive, signals, reaped>>

\* Mutation of SendKill: the SIGTERM is trusted to have done it.
SendKill_Spared(s, saw) ==
  LET c == calls[s]
      refusal == TargetRefusal(c, leases[c.of], saw)
  IN /\ c.at = "kill"
     /\ Looks(c.of, saw)
     /\ IF refusal = "" THEN GoTo(s, "final") ELSE Answer(s, refusal)
     /\ UNCHANGED <<leases, locks, sigterms, alive, signals, reaped>>

SendKill(s, saw) ==
  LET c == calls[s]
      refusal == TargetRefusal(c, leases[c.of], saw)
  IN /\ c.at = "kill"
     /\ Looks(c.of, saw)
     /\ IF refusal = ""
        THEN /\ Sent(s, "SIGKILL")
             /\ alive' = alive \ {Occupant(c.of)}
             /\ sigterms' = sigterms \ {Occupant(c.of)}
             /\ calls' = [calls EXCEPT ![s].at = "final", ![Occupant(c.of)] = Idle]
        ELSE Answer(s, refusal) /\ UNCHANGED <<signals, alive, sigterms>>
     /\ UNCHANGED <<leases, locks, reaped>>

FinalRefusal(c, lease) ==
  IF lease.token # c.token \/ lease.version # c.version THEN "owner_mismatch"
  ELSE IF lease.status # "open" THEN "closed" ELSE ""

ReadFinal(s) ==
  /\ calls[s].at = "final"
  /\ Proceed(s, FinalRefusal(calls[s], leases[calls[s].of]), "write", "reaped")

\* The lease of a dead process is closed as it was read first, that of a
\* stopped one as it was read last.
closeWithinLock(s, answer) ==
  /\ calls[s].at = "write" /\ calls[s].op = "reap"
  /\ Store(s, Abstract!Closed(calls[s].seen), answer)
  /\ reaped' = reaped \cup {calls[s].of}

(***************************************************************************)
(* File operations that fail                                                *)
(***************************************************************************)

\* Neither the directory nor the lock file could be made: no lock, no action.
LockFails(s) ==
  /\ calls[s].at = "lock"
  /\ Ended(s, "io_error")
  /\ UNCHANGED <<leases, locks, sigterms, alive, signals, reaped, blind>>

\* readLease catches everything: a lease that cannot be read is one that is not there.
ReadFails(s) ==
  /\ calls[s].at \in {"read", "term", "kill", "final"}
  /\ Answer(s, IF calls[s].at = "final" THEN "owner_mismatch" ELSE "unowned")
  /\ UNCHANGED <<leases, locks, sigterms, alive, signals, reaped, blind>>

\* atomicWrite throws before its rename, or after it from the directory's sync:
\* the caller hears the same, and the file has changed or has not.
WriteThrows(s) ==
  \/ handoff(s, "io_error") \/ release(s, "io_error") \/ closeWithinLock(s, "io_error")
  \/ /\ calls[s].at = "write"
     /\ Answer(s, "io_error")
     /\ UNCHANGED <<leases, locks, sigterms, alive, signals, reaped, blind>>

\* The lock file stays: its removal failed, which nobody hears of, or the handle
\* did not close, which is what the caller hears.
UnlockFails(s) ==
  /\ calls[s].at = "unlock"
  /\ Ended(s, calls[s].result) \/ Ended(s, "io_error")
  /\ UNCHANGED <<leases, locks, sigterms, alive, signals, reaped, blind>>

StoreFails(s) == LockFails(s) \/ ReadFails(s) \/ WriteThrows(s) \/ UnlockFails(s)

(***************************************************************************)
(* What one server's call does next                                         *)
(***************************************************************************)

StoreStep(s) ==
  \/ TakeLock(s) \/ LockTimeout(s) \/ Unlock(s)
  \/ ReadByOwner(s) \/ handoff(s, "handed_over") \/ release(s, "released")
  \/ ReadByReaper(s) \/ ReadFinal(s) \/ closeWithinLock(s, calls[s].result)

\* ... and the steps that wait for ps.
PsStep(s) == \E saw \in Servers \cup {Nobody} :
  LookAtOwner(s, saw) \/ SendTerm(s, saw) \/ LookAfterTerm(s, saw) \/ SendKill(s, saw)

AtPs(s) == calls[s].at \in {"look", "term", "grace", "kill"}

\* A process that ends drops the call it makes where it stands: a lock file it
\* has made stays.
Die(s) == /\ alive' = alive \ {s}
          /\ calls' = [calls EXCEPT ![s] = Idle]
          /\ sigterms' = sigterms \ {s}
          /\ UNCHANGED <<leases, locks, signals, reaped, blind>>
=============================================================================
