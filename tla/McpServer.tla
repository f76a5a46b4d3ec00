----------------------------- MODULE McpServer -----------------------------
(***************************************************************************)
(* The life of the MCP server processes that share a lease store: run() of  *)
(* index.ts with its reconciliation, startup and startup cleanup, and the   *)
(* shutdown of RuntimeShutdownController, which finalizes the lifecycle,    *)
(* releases the lease and closes the server, each within what is left of    *)
(* one deadline.  A step that is given up goes on in the background until   *)
(* the process ends, and process.exit ends it wherever it is.               *)
(***************************************************************************)
EXTENDS LifecycleLease

CONSTANTS Mortal,      \* bound: the servers that fail, expire, hand over and stop
          MaxCrashes   \* bound: processes that are killed from outside

ASSUME MortalAssumption  == Mortal \subseteq Servers
ASSUME CrashesAssumption == MaxCrashes \in Nat

VARIABLES phase,    \* how far each process is
          todo,     \* the leases that its reconciliation has still to visit
          stop,     \* what it is stopping for
          once,     \* the processes whose SIGTERM handler is still installed
          owned,    \* the processes whose activeLease is set
          held,     \* history: the processes whose activeLease was ever set
          noted     \* what its shutdown reports about the lease

serverVars == <<phase, todo, stop, once, owned, held, noted>>
vars == <<leaseVars, serverVars>>

Phases == {"none", "reconcile", "opening", "serving", "finalizing", "releasing", "closing",
           "drained", "exited", "killed", "crashed"}

\* A process stops because its input ended, or for a signal or a failure, and
\* then exits without waiting for anything.
Reasons == {"", "eof", "exit"}

ServerTypeOK == /\ phase \in [Servers -> Phases]
                /\ todo \in [Servers -> SUBSET Servers]
                /\ stop \in [Servers -> Reasons]
                /\ once \subseteq Servers
                /\ owned \subseteq Servers
                /\ held \subseteq Servers
                /\ noted \in [Servers -> {"", "LEASE_RELEASE_FAILED", "LEASE_RELEASE_TIMEOUT"}]

Init == /\ LeaseInit
        /\ phase = [s \in Servers |-> "none"]
        /\ todo = [s \in Servers |-> {}]
        /\ stop = [s \in Servers |-> ""]
        /\ once = {}
        /\ owned = {}
        /\ held = {}
        /\ noted = [s \in Servers |-> ""]

Becomes(s, p) == phase' = [phase EXCEPT ![s] = p]

\* Of processes that have ended only what they reported is left.
End(gone, p) ==
  /\ phase' = [s \in Servers |-> IF s \in gone THEN p ELSE phase[s]]
  /\ todo' = [s \in Servers |-> IF s \in gone THEN {} ELSE todo[s]]
  /\ stop' = [s \in Servers |-> IF s \in gone THEN "" ELSE stop[s]]
  /\ once' = once \ gone
  /\ owned' = owned \ gone
  /\ held' = held
  /\ noted' = [s \in Servers |-> IF s \in gone /\ p # "exited" THEN "" ELSE noted[s]]

Ends(s, p) == End({s}, p)

\* The answer of a call is taken.
Return(s) == /\ calls' = [calls EXCEPT ![s] = Idle]
             /\ UNCHANGED <<leases, locks, sigterms, alive, signals, reaped, blind>>

\* releaseActiveLease forgets the lease before it releases it, under the token
\* and the version of its acquisition; a second call has nothing to release.
releaseActiveLease(s) ==
  /\ owned' = owned \ {s}
  /\ held' = held
  /\ IF s \in owned
     THEN Begin(s, "release", s, Abstract!Granted.token, Abstract!Granted.version)
     ELSE UNCHANGED storeVars

(***************************************************************************)
(* Startup: run()                                                           *)
(***************************************************************************)

\* A process starts with a pid of its own or with that of a dead one, and lists
\* the lease files there are.
Start(s) ==
  /\ phase[s] = "none"
  /\ \A t \in Servers : t < s => phase[t] # "none"
  /\ \E p \in {s} \cup {pids[t] : t \in {u \in Servers : u < s}} :
       /\ \A t \in alive : pids[t] # p
       /\ pids' = [pids EXCEPT ![s] = p]
  /\ alive' = alive \cup {s}
  /\ todo' = [todo EXCEPT ![s] = {t \in Servers : leases[t].status # "none"}]
  /\ Becomes(s, "reconcile")
  /\ UNCHANGED <<leases, locks, calls, expired, faults, sigterms, signals, reaped, blind,
                 stop, once, owned, held, noted>>

\* The owner token of the next lease is read before the lock is taken.  A lease
\* that cannot be read is passed over.
ReconcileNext(s) ==
  /\ phase[s] = "reconcile"
  /\ \E l \in todo[s] :
       /\ todo' = [todo EXCEPT ![s] = @ \ {l}]
       /\ IF leases[l].status = "open"
          THEN Begin(s, "reap", l, leases[l].token, 0)
          ELSE calls[s] = Idle /\ UNCHANGED storeVars
  /\ UNCHANGED <<expired, pids, faults, phase, stop, once, owned, held, noted>>

LeaseUnread(s) ==
  /\ phase[s] = "reconcile" /\ calls[s] = Idle
  /\ \E l \in todo[s] : todo' = [todo EXCEPT ![s] = @ \ {l}]
  /\ UNCHANGED <<storeVars, expired, pids, phase, stop, once, owned, held, noted>>

\* inspectCurrent and the rest of the environment answered, or run() throws and
\* the fatal shutdown finds nothing to release.
AcquireLease(s) ==
  /\ phase[s] = "reconcile" /\ todo[s] = {} /\ calls[s] = Idle
  /\ acquire(s)
  /\ owned' = owned \cup {s}
  /\ held' = held \cup {s}
  /\ Becomes(s, "opening")
  /\ UNCHANGED <<expired, pids, faults, todo, stop, once, noted>>

StartupThrows(s) ==
  /\ s \in Mortal /\ phase[s] = "reconcile" /\ todo[s] = {} /\ calls[s] = Idle
  /\ stop' = [stop EXCEPT ![s] = "exit"]
  /\ Becomes(s, "closing")
  /\ UNCHANGED <<leaseVars, todo, once, owned, held, noted>>

\* acquire throws, with the lease file not written or already in its place: run()
\* has no lease to release, and neither has the fatal shutdown.
AcquireThrows(s) ==
  /\ s \in Mortal /\ phase[s] = "reconcile" /\ todo[s] = {} /\ calls[s] = Idle
  /\ acquire(s) \/ UNCHANGED storeVars
  /\ stop' = [stop EXCEPT ![s] = "exit"]
  /\ Becomes(s, "closing")
  /\ UNCHANGED <<expired, pids, todo, once, owned, held, noted>>

RuntimeOpens(s) ==
  /\ phase[s] = "opening"
  /\ once' = once \cup {s}
  /\ Becomes(s, "serving")
  /\ UNCHANGED <<leaseVars, todo, stop, owned, held, noted>>

\* openRuntimeAfterLease runs the startup cleanup, whose steps are the last two
\* of a shutdown; the fatal shutdown that follows has nothing left to release.
RuntimeDoesNotOpen(s) ==
  /\ s \in Mortal /\ phase[s] = "opening"
  /\ stop' = [stop EXCEPT ![s] = "exit"]
  /\ releaseActiveLease(s)
  /\ Becomes(s, "releasing")
  /\ UNCHANGED <<expired, pids, faults, todo, once, noted>>

(***************************************************************************)
(* A running server                                                         *)
(***************************************************************************)

\* The session is handed over by whoever knows the lease as it is now.  The
\* server goes on with the token and version it acquired.
HandOff(s) ==
  /\ s \in Mortal /\ phase[s] = "serving" /\ leases[s].version <= MaxHandoffs
  /\ Begin(s, "handoff", s, leases[s].token, leases[s].version)
  /\ UNCHANGED <<expired, pids, faults, serverVars>>

HandOffReturns(s) ==
  /\ calls[s].at = "done" /\ calls[s].op = "handoff"
  /\ Return(s)
  /\ UNCHANGED <<expired, pids, faults, serverVars>>

\* End of input ends the session, an operator's signal or a transport that does
\* not connect cancels it first.
BeginShutdown(s, reason) ==
  /\ s \in Mortal /\ phase[s] = "serving"
  /\ stop' = [stop EXCEPT ![s] = reason]
  /\ Becomes(s, "finalizing")
  /\ UNCHANGED <<leaseVars, todo, once, owned, held, noted>>

\* SIGTERM finds its handler once: then it starts the shutdown, or joins the one
\* under way and has the process exit at its end.  Without one it ends the process.
DeliverTerm(s) ==
  /\ s \in sigterms
  /\ IF s \in once
     THEN /\ once' = once \ {s}
          /\ sigterms' = sigterms \ {s}
          /\ stop' = [stop EXCEPT ![s] = "exit"]
          /\ Becomes(s, IF phase[s] = "serving" THEN "finalizing" ELSE phase[s])
          /\ UNCHANGED <<leases, locks, calls, alive, signals, reaped, blind,
                         todo, owned, held, noted>>
     ELSE Die(s) /\ Ends(s, "killed")
  /\ UNCHANGED <<expired, pids, faults>>

(***************************************************************************)
(* Shutdown: closeLifecycle, then the lease, then the server                *)
(***************************************************************************)

\* The cancellation and the finalization have been answered, have failed or have
\* been given up at the deadline.
closeLifecycle(s) ==
  /\ phase[s] = "finalizing" /\ calls[s] = Idle
  /\ releaseActiveLease(s)
  /\ Becomes(s, "releasing")
  /\ UNCHANGED <<expired, pids, faults, todo, stop, once, noted>>

\* Mutation of ReleaseSettles: a refused release is as good as any.
ReleaseSettles_Refused(s) ==
  /\ phase[s] = "releasing" /\ calls[s].at = "done"
  /\ noted' = [noted EXCEPT ![s] = IF calls[s].result = "lease_lock_timeout"
                                   THEN "LEASE_RELEASE_FAILED" ELSE ""]
  /\ Return(s)
  /\ Becomes(s, "closing")
  /\ UNCHANGED <<expired, pids, faults, todo, stop, once, owned, held>>

ReleaseSettles(s) ==
  /\ phase[s] = "releasing" /\ calls[s].at = "done"
  /\ noted' = [noted EXCEPT ![s] = IF calls[s].result \in {"released", "closed"}
                                   THEN "" ELSE "LEASE_RELEASE_FAILED"]
  /\ Return(s)
  /\ Becomes(s, "closing")
  /\ UNCHANGED <<expired, pids, faults, todo, stop, once, owned, held>>

ReleaseTimesOut(s) ==
  /\ phase[s] = "releasing" /\ calls[s].at \notin {"idle", "done"}
  /\ noted' = [noted EXCEPT ![s] = "LEASE_RELEASE_TIMEOUT"]
  /\ Becomes(s, "closing")
  /\ UNCHANGED <<leaseVars, todo, stop, once, owned, held>>

\* server.close has settled or has been given up.  A signal and a failure then
\* exit, whatever is still under way; after the end of input nothing does.
CloseServer(s) ==
  /\ phase[s] = "closing"
  /\ IF stop[s] = "eof"
     THEN Becomes(s, "drained") /\ UNCHANGED <<storeVars, todo, stop, once, owned, held, noted>>
     ELSE Ends(s, "exited") /\ Die(s)
  /\ UNCHANGED <<expired, pids, faults>>

\* After the end of input a process ends when nothing keeps its event loop: a
\* finalization or a handler that was given up may do so for ever.
Drain(s) ==
  /\ phase[s] = "drained" /\ stop[s] = "eof"
  /\ calls[s].at \in {"idle", "done"}
  /\ Ends(s, "exited")
  /\ Die(s)
  /\ UNCHANGED <<expired, pids, faults>>

\* One that a signal has told to exit does not wait.
ExitAfterSignal(s) ==
  /\ phase[s] = "drained" /\ stop[s] = "exit"
  /\ Ends(s, "exited")
  /\ Die(s)
  /\ UNCHANGED <<expired, pids, faults>>

(***************************************************************************)
(* The store's calls, time and crashes                                      *)
(***************************************************************************)

CallStep(s) ==
  /\ s \in alive
  /\ StoreStep(s)
  /\ UNCHANGED <<expired, pids, faults, serverVars>>

\* What ps shows may have a reap kill another process, which then is where it was.
PsAnswers(s) ==
  /\ s \in alive
  /\ PsStep(s)
  /\ End(alive \ alive', "killed")
  /\ UNCHANGED <<expired, pids, faults>>

\* A file operation fails, in a call of the store or in run() itself.
Fault(s) ==
  /\ s \in alive /\ blind + faults < MaxFaults
  /\ faults' = faults + 1
  /\ \/ StoreFails(s) /\ UNCHANGED <<expired, pids, serverVars>>
     \/ LeaseUnread(s) \/ AcquireThrows(s)

\* The time to live of a lease passes while the server runs on.
Expire(s) ==
  /\ s \in Mortal /\ phase[s] = "serving"
  /\ expired' = expired \cup {s}
  /\ UNCHANGED <<storeVars, pids, faults, serverVars>>

Crash(s) ==
  /\ s \in alive
  /\ Cardinality({t \in Servers : phase[t] = "crashed"}) < MaxCrashes
  /\ Die(s)
  /\ Ends(s, "crashed")
  /\ UNCHANGED <<expired, pids, faults>>

\* What the program of a server does without being asked, file operations and
\* timers answering.
Program(s) == \/ ReconcileNext(s) \/ HandOffReturns(s) \/ DeliverTerm(s)
              \/ closeLifecycle(s) \/ ReleaseSettles(s) \/ ReleaseTimesOut(s)
              \/ CloseServer(s) \/ ExitAfterSignal(s) \/ CallStep(s)

Environment(s) == \/ Start(s) \/ AcquireLease(s) \/ StartupThrows(s)
                  \/ RuntimeOpens(s) \/ RuntimeDoesNotOpen(s) \/ HandOff(s)
                  \/ \E reason \in {"eof", "exit"} : BeginShutdown(s, reason)
                  \/ Drain(s) \/ PsAnswers(s) \/ Fault(s) \/ Expire(s) \/ Crash(s)

Next == \E s \in Servers : Program(s) \/ Environment(s)

Safe == Init /\ [][Next]_vars

\* Timers fire, file operations return and the steps of a process that runs are
\* taken.  Nothing says that ps answers, that the runtime opens, or that the
\* process ends after the end of its input.
Spec == Safe /\ \A s \in Servers : WF_vars(Program(s))

(***************************************************************************)
(* Properties                                                               *)
(***************************************************************************)

AllTypeOK == TypeOK /\ ServerTypeOK

\* A lease file is granted once, changes owner and closes in steps of one
\* version, and stays as it is when closed: no write of a call that read an
\* older lease overwrites a newer one.
ImplementsRecord == Abstract!Spec

\* A signal goes to the very process the lease names, and only while the token
\* the reap was given is the lease's: a pid that somebody else has since, and a
\* lease that changed hands, are left alone (architecture.md:389-393).
SignalsOnlyTheOwner ==
  \A g \in signals : g.hit = g.lease /\ g.lease \in expired /\ g.owner

\* A lease that a reap has closed is the lease of a dead process: unless a look
\* missed it, a living server never runs on under a lease others take for closed.
ReapedIsDead == blind = 0 => reaped \cap alive = {}

\* A server that has had a lease and ends by itself with it still open says so:
\* the lease was handed over, its release was refused, locked out or given up, or
\* a file operation failed.  Whoever acquires it and hears of a failure instead
\* has none to release: the file that may be there is left to a later server.
NoSilentLeak ==
  \A s \in held : phase[s] = "exited" /\ leases[s].status = "open" => noted[s] # ""

\* A server comes to the end of its reconciliation, unless it waits for ps and is
\* never answered, and to the end of its shutdown, whatever locks and processes
\* the dead have left and whatever hangs.
Busy(s) == \/ phase[s] = "reconcile" /\ (todo[s] # {} \/ calls[s] # Idle)
           \/ phase[s] \in {"finalizing", "releasing", "closing"}
           \/ phase[s] = "drained" /\ stop[s] = "exit"

StartAndStopEnd == \A s \in Servers : Busy(s) ~> (~Busy(s) \/ []AtPs(s))
=============================================================================
