--------------------------- MODULE McpServerProofs ---------------------------
(***************************************************************************)
(* What MCP servers that share a lease store can rely on, for any number of *)
(* them, of failed looks, handoffs and crashes.                             *)
(*                                                                          *)
(* The argument: a call enters the store by creating the lock file of a     *)
(* lease, and only a call that has done so removes it, so no lease changes  *)
(* between what a call has read of it and what the call writes.  A lease    *)
(* that a call is about belongs to a process that has come past its         *)
(* reconciliation, so nobody is granted it a second time, and a process     *)
(* seen dead does not start again.                                          *)
(***************************************************************************)
EXTENDS McpServer, TLAPS

\* A lease is open or closed once it was granted.
LeaseInv(l) == leases[l].status = "none" => leases[l] = Abstract!Unleased

\* What a call knows of its lease: it was granted; the lock is the call's alone,
\* and what was read still holds; a process to be stopped has expired; one that
\* a reap closes the lease of is dead; and a release that succeeded has closed it.
Holds(s)   == calls[s].at \in Critical
Knows(s)   == Holds(s) /\ calls[s].at \notin {"read", "unlock"}
Closing(s) == calls[s].at = "final" \/ (calls[s].at = "write" /\ calls[s].op = "reap")

Granted(s) == calls[s].at # "idle" =>
                calls[s].of \in Servers /\ leases[calls[s].of].status # "none"
Locked(s)  == Holds(s) => calls[s].of \in locks
Alone(s)   == \A t \in Servers \ {s} : Holds(s) /\ Holds(t) => calls[t].of # calls[s].of
Current(s) == Knows(s) => calls[s].seen = leases[calls[s].of] /\ calls[s].seen.status = "open"
Overdue(s) == calls[s].at \in {"term", "grace", "kill"} => calls[s].of \in expired
Dead(s)    == Closing(s) /\ blind = 0 => calls[s].of \notin alive
Freed(s)   == /\ calls[s].op = "release" /\ calls[s].at \in {"unlock", "done"}
              /\ calls[s].result \in {"released", "closed"}
              => leases[calls[s].of].status = "closed"

CallInv(s) == /\ Granted(s) /\ Locked(s) /\ Alone(s) /\ Current(s)
              /\ Overdue(s) /\ Dead(s) /\ Freed(s)

\* What the phase of a server says of its lease.
ServerInv(s) ==
  /\ phase[s] \in {"none", "reconcile"} => leases[s].status = "none"
  /\ phase[s] \in {"opening", "serving", "finalizing"} => s \in owned
  /\ s \in owned => leases[s].status # "none"
  /\ phase[s] \in {"none", "reconcile"} => s \notin held
  /\ phase[s] = "releasing" => calls[s].op = "release" /\ calls[s].of = s
                                 /\ calls[s].at # "idle"
  /\ phase[s] \in {"closing", "drained", "exited"} /\ leases[s].status = "open"
       /\ s \in held => noted[s] # ""

ReapedInv == \A l \in reaped : leases[l].status # "none" /\ (blind = 0 => l \notin alive)

StoreInv == /\ AllTypeOK
            /\ \A l \in Servers : LeaseInv(l)
            /\ \A s \in Servers : CallInv(s)
            /\ \A s \in Servers : ServerInv(s)
            /\ ReapedInv
            /\ SignalsOnlyTheOwner

-----------------------------------------------------------------------------
LEMMA Facts ==
  /\ Nobody \notin Servers
  /\ Abstract!Unleased \in Lease /\ Abstract!Granted \in Lease
  /\ Idle \in Call /\ Idle.at = "idle" /\ Idle.of = Nobody
BY NobodyAssumption DEF Abstract!Unleased, Abstract!Granted, Lease, Idle, Call, Results,
   Waiting, Critical

LEMMA InvInit == Init => StoreInv
<1> SUFFICES ASSUME Init PROVE StoreInv
  OBVIOUS
<1>1. AllTypeOK
  <2>1. TypeOK
    <3>1. leases \in [Servers -> Lease] BY Facts DEF Init, LeaseInit
    <3>2. calls \in [Servers -> Call] BY Facts DEF Init, LeaseInit
    <3>3. pids \in [Servers -> Servers] BY DEF Init, LeaseInit
    <3>4. blind = 0 /\ faults = 0 BY DEF Init, LeaseInit
    <3>5. blind \in 0..MaxFaults /\ faults \in 0..MaxFaults BY <3>4, BoundsAssumption
    <3> QED BY <3>1, <3>2, <3>3, <3>5 DEF Init, LeaseInit, TypeOK
  <2>2. ServerTypeOK
    BY DEF Init, ServerTypeOK, Phases, Reasons
  <2> QED BY <2>1, <2>2 DEF AllTypeOK
<1>2. \A s \in Servers : LeaseInv(s) /\ CallInv(s) /\ ServerInv(s)
  BY Facts DEF Init, LeaseInit, LeaseInv, CallInv, ServerInv, Granted, Locked, Alone, Current,
     Overdue, Dead, Freed, Holds, Knows, Closing, Critical, Abstract!Unleased
<1>3. ReapedInv /\ SignalsOnlyTheOwner
  BY DEF Init, LeaseInit, ReapedInv, SignalsOnlyTheOwner
<1> QED BY <1>1, <1>2, <1>3 DEF StoreInv

\* A call that goes on, and does not get under a lock thereby, disturbs nobody.
LEMMA CallMoves ==
  ASSUME StoreInv, NEW s \in Servers, NEW c \in Call,
         calls' = [calls EXCEPT ![s] = c],
         UNCHANGED <<leases, locks, alive, expired, reaped>>,
         blind' = 0 => blind = 0,
         c.at \in Critical => Holds(s) /\ c.of = calls[s].of,
         (Granted(s) /\ Current(s) /\ Overdue(s) /\ Dead(s) /\ Freed(s))'
  PROVE  /\ calls' \in [Servers -> Call]
         /\ \A l \in Servers : LeaseInv(l)'
         /\ \A t \in Servers : CallInv(t)'
         /\ ReapedInv'
<1>1. calls \in [Servers -> Call] /\ calls' \in [Servers -> Call]
  BY DEF StoreInv, AllTypeOK, TypeOK
<1>2. calls'[s] = c /\ \A t \in Servers \ {s} : calls'[t] = calls[t]
  BY <1>1
<1>3. (\A l \in Servers : LeaseInv(l)') /\ ReapedInv'
  BY DEF StoreInv, LeaseInv, ReapedInv
<1>4. CallInv(s)'
  BY <1>2 DEF StoreInv, CallInv, Locked, Alone, Holds
<1>5. ASSUME NEW t \in Servers \ {s} PROVE CallInv(t)'
  <2>1. CallInv(t) /\ CallInv(s)
    BY DEF StoreInv
  <2> QED
    BY <1>2, <2>1 DEF CallInv, Granted, Locked, Alone, Current, Overdue, Dead, Freed,
       Holds, Knows, Closing
<1> QED BY <1>1, <1>3, <1>4, <1>5

LEMMA NobodyGone ==
  ASSUME AllTypeOK, alive' = alive, NEW p, End(alive \ alive', p)
  PROVE  UNCHANGED serverVars
<1>1. alive \ alive' = {}
  OBVIOUS
<1> QED BY <1>1 DEF End, AllTypeOK, ServerTypeOK, serverVars

\* ... and the server that makes it is where it was.
LEMMA StoreMoves ==
  ASSUME StoreInv, NEW s \in Servers, NEW c \in Call,
         calls' = [calls EXCEPT ![s] = c],
         UNCHANGED <<leases, locks, alive, expired, reaped, pids, serverVars>>,
         faults' \in 0..MaxFaults,
         \/ UNCHANGED <<signals, sigterms>>
         \/ SignalsOnlyTheOwner' /\ signals' \subseteq Signal /\ sigterms' \subseteq Servers,
         blind' \in 0..MaxFaults, blind' = 0 => blind = 0,
         c.at \in Critical => Holds(s) /\ c.of = calls[s].of,
         phase[s] = "releasing" => c.op = "release" /\ c.of = s /\ c.at # "idle",
         (Granted(s) /\ Current(s) /\ Overdue(s) /\ Dead(s) /\ Freed(s))'
  PROVE  StoreInv'
<1>1. /\ calls' \in [Servers -> Call]
      /\ \A l \in Servers : LeaseInv(l)'
      /\ \A t \in Servers : CallInv(t)'
      /\ ReapedInv'
  BY CallMoves
<1>2. AllTypeOK'
  BY <1>1 DEF StoreInv, AllTypeOK, TypeOK, ServerTypeOK, serverVars
<1>3. \A t \in Servers : ServerInv(t)'
  BY DEF StoreInv, ServerInv, serverVars, AllTypeOK, TypeOK
<1>4. SignalsOnlyTheOwner'
  BY DEF StoreInv, SignalsOnlyTheOwner
<1> QED BY <1>1, <1>2, <1>3, <1>4 DEF StoreInv

\* A call that ends leaves no trace, whether it was under the lock or not.
LEMMA EndedKeeps ==
  ASSUME StoreInv, NEW s \in Servers, NEW result \in Results, Ended(s, result),
         UNCHANGED <<leases, locks, sigterms, alive, signals, reaped, blind>>,
         UNCHANGED <<expired, pids, serverVars>>, faults' \in 0..MaxFaults,
         calls[s].at \in {"lock", "unlock"},
         \/ result \in {"lease_lock_timeout", "io_error"}
         \/ result = calls[s].result /\ calls[s].at = "unlock"
  PROVE  StoreInv'
<1> DEFINE d == [calls[s] EXCEPT !.at = "done", !.result = result]
           c == IF calls[s].op = "reap" THEN Idle ELSE d
<1>1. calls \in [Servers -> Call] /\ calls[s] \in Call /\ blind \in 0..MaxFaults
  BY DEF StoreInv, AllTypeOK, TypeOK
<1>2. /\ d \in Call
      /\ d.op = calls[s].op /\ d.of = calls[s].of /\ d.at = "done"
      /\ d.result = result
  BY <1>1 DEF Call
<1>3. calls' = [calls EXCEPT ![s] = c]
  BY DEF Ended
<1> HIDE DEF d
<1>4. c \in Call /\ c.at \notin Critical
  BY <1>2, Facts DEF Critical
<1>5. CallInv(s) /\ ServerInv(s) /\ calls'[s] = c
  BY <1>1, <1>3 DEF StoreInv
<1>6. (Granted(s) /\ Current(s) /\ Overdue(s) /\ Dead(s) /\ Freed(s))'
  BY <1>2, <1>5, Facts DEF CallInv, Granted, Current, Overdue, Dead, Freed,
     Holds, Knows, Closing, Critical
<1>7. phase[s] = "releasing" => c.op = "release" /\ c.of = s /\ c.at # "idle"
  BY <1>2, <1>5 DEF ServerInv
<1> HIDE DEF c
<1> QED BY <1>1, <1>3, <1>4, <1>6, <1>7, StoreMoves

LEMMA Reads ==
  ASSUME StoreInv, NEW s \in Servers, NEW refusal \in Results, NEW next \in Critical,
         NEW result \in Results,
         Proceed(s, refusal, next, result), UNCHANGED <<expired, pids, serverVars>>, faults' \in 0..MaxFaults,
         calls[s].at \in {"read", "final"},
         refusal = "" => leases[calls[s].of].status = "open",
         refusal \in {"closed", "released"} => leases[calls[s].of].status = "closed",
         next \in {"look", "write"},
         next = "write" /\ calls[s].op = "reap" => calls[s].at = "final"
  PROVE  StoreInv'
<1> DEFINE lease == leases[calls[s].of]
           c == IF refusal = "" THEN [calls[s] EXCEPT !.at = next, !.seen = lease,
                                        !.version = lease.version, !.result = result]
                ELSE [calls[s] EXCEPT !.at = "unlock", !.result = refusal]
<1>1. /\ calls \in [Servers -> Call] /\ calls[s] \in Call /\ blind \in 0..MaxFaults
      /\ leases \in [Servers -> Lease]
  BY DEF StoreInv, AllTypeOK, TypeOK
<1>2. CallInv(s) /\ ServerInv(s) /\ calls[s].of \in Servers /\ Holds(s)
  BY DEF StoreInv, CallInv, Granted, Holds, Critical
<1>3. lease \in Lease /\ lease.version \in Nat
  BY <1>1, <1>2 DEF Lease
<1>4. c \in Call
  BY <1>1, <1>3 DEF Call, Critical
<1>5. calls' = [calls EXCEPT ![s] = c]
  BY DEF Proceed, Answer, Moves, Call
<1>6. /\ c.op = calls[s].op /\ c.of = calls[s].of
      /\ c.at = (IF refusal = "" THEN next ELSE "unlock")
      /\ refusal = "" => c.seen = lease
      /\ refusal # "" => c.result = refusal
  BY <1>1 DEF Call
<1> HIDE DEF c
<1>7. calls'[s] = c
  BY <1>1, <1>5
<1>8. (Granted(s) /\ Current(s) /\ Overdue(s) /\ Dead(s) /\ Freed(s))'
  BY <1>2, <1>6, <1>7 DEF Proceed, CallInv, Granted, Current, Overdue, Dead, Freed,
     Holds, Knows, Closing, Critical
<1>9. phase[s] = "releasing" => c.op = "release" /\ c.of = s /\ c.at # "idle"
  BY <1>2, <1>6 DEF ServerInv, Critical
<1> QED BY <1>1, <1>2, <1>4, <1>5, <1>6, <1>8, <1>9, StoreMoves DEF Proceed

LEMMA ReadsKeep ==
  ASSUME StoreInv, NEW s \in Servers, UNCHANGED <<expired, pids, serverVars>>, faults' \in 0..MaxFaults,
         ReadByOwner(s) \/ ReadByReaper(s) \/ ReadFinal(s)
  PROVE  StoreInv'
<1> DEFINE lease == leases[calls[s].of]
<1>1. calls[s] \in Call /\ leases \in [Servers -> Lease]
  BY DEF StoreInv, AllTypeOK, TypeOK
<1>2. lease.status \in {"none", "open", "closed"}
  <2>1. calls[s].of \in Servers
    BY DEF StoreInv, CallInv, Granted, ReadByOwner, ReadByReaper, ReadFinal
  <2> QED BY <1>1, <2>1 DEF Lease
<1>3. CASE ReadByOwner(s)
  <2>1. OwnerRefusal(calls[s], lease) \in Results
    BY DEF OwnerRefusal, Results
  <2>2. OwnerRefusal(calls[s], lease) = "" => lease.status = "open"
    BY <1>2 DEF OwnerRefusal
  <2>3. OwnerRefusal(calls[s], lease) \in {"closed", "released"} => lease.status = "closed"
    BY DEF OwnerRefusal
  <2> QED BY <1>3, <2>1, <2>2, <2>3, Reads DEF ReadByOwner, Critical, Results
<1>4. CASE ReadByReaper(s)
  <2>1. ReapRefusal(calls[s], lease) \in Results
    BY DEF ReapRefusal, Results
  <2>2. ReapRefusal(calls[s], lease) = "" => lease.status = "open"
    BY <1>2 DEF ReapRefusal
  <2>3. ReapRefusal(calls[s], lease) \in {"closed", "released"} => lease.status = "closed"
    BY DEF ReapRefusal
  <2> QED BY <1>4, <2>1, <2>2, <2>3, Reads DEF ReadByReaper, Critical, Results
<1>5. CASE ReadFinal(s)
  <2>1. FinalRefusal(calls[s], lease) \in Results
    BY DEF FinalRefusal, Results
  <2>2. FinalRefusal(calls[s], lease) = "" => lease.status = "open"
    BY DEF FinalRefusal
  <2>3. lease.status = "open"
    BY <1>5 DEF StoreInv, CallInv, Current, Knows, Holds, Critical, ReadFinal
  <2>4. FinalRefusal(calls[s], lease) \notin {"closed", "released"}
    BY <2>3 DEF FinalRefusal
  <2> QED BY <1>5, <2>1, <2>2, <2>4, Reads DEF ReadFinal, Critical, Results
<1> QED BY <1>3, <1>4, <1>5

\* What has the pid of a lease, and what of it is gone when nobody has.
LEMMA OccupantFacts ==
  ASSUME AllTypeOK, NEW l \in Servers
  PROVE  /\ Occupant(l) \in alive \cup {Nobody}
         /\ Occupant(l) = Nobody => l \notin alive
BY Facts DEF Occupant, AllTypeOK, TypeOK

LEMMA LooksFacts ==
  ASSUME StoreInv, NEW l \in Servers, NEW saw \in Servers \cup {Nobody}, Looks(l, saw)
  PROVE  /\ blind' \in 0..MaxFaults
         /\ blind' = 0 => blind = 0
         /\ saw = Nobody /\ blind' = 0 => l \notin alive
         /\ saw # Nobody => Occupant(l) = saw /\ saw \in alive
<1>1. blind \in 0..MaxFaults /\ faults \in 0..MaxFaults /\ MaxFaults \in Nat /\ AllTypeOK
  BY BoundsAssumption DEF StoreInv, AllTypeOK, TypeOK
<1>2. CASE saw = Occupant(l) /\ blind' = blind
  BY <1>1, <1>2, OccupantFacts
<1>3. CASE saw = Nobody /\ Occupant(l) # Nobody /\ blind + faults < MaxFaults /\ blind' = blind + 1
  BY <1>1, <1>3
<1> QED BY <1>2, <1>3 DEF Looks

LEMMA LookAtOwnerKeeps ==
  ASSUME StoreInv, NEW s \in Servers, NEW saw \in Servers \cup {Nobody},
         LookAtOwner(s, saw), UNCHANGED <<expired, pids, serverVars>>, faults' \in 0..MaxFaults
  PROVE  StoreInv'
<1>1. /\ calls \in [Servers -> Call] /\ calls[s] \in Call
      /\ CallInv(s) /\ ServerInv(s) /\ calls[s].at = "look" /\ calls[s].of \in Servers
  BY DEF StoreInv, AllTypeOK, TypeOK, LookAtOwner, CallInv, Granted
<1>2. PICK step \in {"write", "unlock", "term"}, result \in Results :
        /\ Moves(s, step, result)
        /\ step = "write" => saw = Nobody
        /\ step = "term" => calls[s].of \in expired
        /\ result \notin {"closed", "released"}
  BY DEF LookAtOwner, GoTo, Answer, Results
<1> DEFINE c == [calls[s] EXCEPT !.at = step, !.result = result]
<1>3. /\ c \in Call /\ c.op = calls[s].op /\ c.of = calls[s].of /\ c.at = step
      /\ c.seen = calls[s].seen /\ c.result = result
  <2>1. step \in Critical
    BY DEF Critical
  <2> QED BY <1>1, <2>1 DEF Call
<1>4. calls' = [calls EXCEPT ![s] = c]
  BY <1>2 DEF Moves
<1> HIDE DEF c
<1>5. calls'[s] = c
  BY <1>1, <1>4
<1>6. /\ blind' \in 0..MaxFaults /\ (blind' = 0 => blind = 0)
      /\ saw = Nobody /\ blind' = 0 => calls[s].of \notin alive
  BY <1>1, LooksFacts DEF LookAtOwner
<1>7. (Granted(s) /\ Current(s) /\ Overdue(s) /\ Dead(s) /\ Freed(s))'
  BY <1>1, <1>2, <1>3, <1>5, <1>6 DEF LookAtOwner, CallInv, Granted, Current, Overdue, Dead,
     Freed, Holds, Knows, Closing, Critical
<1>8. phase[s] = "releasing" => c.op = "release" /\ c.of = s /\ c.at # "idle"
  BY <1>1, <1>3 DEF ServerInv
<1> QED BY <1>1, <1>3, <1>4, <1>6, <1>7, <1>8, StoreMoves DEF LookAtOwner, Holds, Critical

LEMMA LookAfterTermKeeps ==
  ASSUME StoreInv, NEW s \in Servers, NEW saw \in Servers \cup {Nobody},
         LookAfterTerm(s, saw), UNCHANGED <<expired, pids, serverVars>>, faults' \in 0..MaxFaults
  PROVE  StoreInv'
<1>1. /\ calls \in [Servers -> Call] /\ calls[s] \in Call
      /\ CallInv(s) /\ ServerInv(s) /\ calls[s].at = "grace" /\ calls[s].of \in Servers
  BY DEF StoreInv, AllTypeOK, TypeOK, LookAfterTerm, CallInv, Granted
<1> DEFINE step == IF saw = Nobody THEN "final" ELSE "kill"
           c == [calls[s] EXCEPT !.at = step, !.result = ""]
<1>2. step \in Critical /\ "" \in Results
  BY DEF Critical, Results
<1>3. /\ c \in Call /\ c.op = calls[s].op /\ c.of = calls[s].of /\ c.at = step
      /\ c.seen = calls[s].seen /\ c.result = ""
  <2> HIDE DEF step
  <2> QED BY <1>1, <1>2 DEF Call
<1>4. calls' = [calls EXCEPT ![s] = c]
  BY DEF LookAfterTerm, GoTo, Moves
<1> HIDE DEF c
<1>5. calls'[s] = c
  BY <1>1, <1>4
<1>6. /\ blind' \in 0..MaxFaults /\ (blind' = 0 => blind = 0)
      /\ saw = Nobody /\ blind' = 0 => calls[s].of \notin alive
  BY <1>1, LooksFacts DEF LookAfterTerm
<1>7. (Granted(s) /\ Current(s) /\ Overdue(s) /\ Dead(s) /\ Freed(s))'
  BY <1>1, <1>3, <1>5, <1>6 DEF LookAfterTerm, CallInv, Granted, Current, Overdue, Dead,
     Freed, Holds, Knows, Closing, Critical
<1>8. phase[s] = "releasing" => c.op = "release" /\ c.of = s /\ c.at # "idle"
  BY <1>1, <1>3 DEF ServerInv
<1> QED BY <1>1, <1>3, <1>4, <1>6, <1>7, <1>8, StoreMoves DEF LookAfterTerm, Holds, Critical

LEMMA SignalIsOwners ==
  ASSUME StoreInv, NEW s \in Servers, NEW saw \in Servers \cup {Nobody},
         calls[s].of \in Servers, calls[s].of \in expired, expired' = expired,
         Looks(calls[s].of, saw), NEW sig \in {"SIGTERM", "SIGKILL"}, Sent(s, sig),
         TargetRefusal(calls[s], leases[calls[s].of], saw) = ""
  PROVE  /\ SignalsOnlyTheOwner' /\ signals' \subseteq Signal
         /\ Occupant(calls[s].of) = calls[s].of
<1>1. saw = calls[s].of /\ leases[calls[s].of].token = calls[s].token
  BY DEF TargetRefusal
<1>2. Occupant(calls[s].of) = calls[s].of
  BY <1>1, Facts, LooksFacts
<1> DEFINE sent == [by |-> s, lease |-> calls[s].of, sig |-> sig, hit |-> Occupant(calls[s].of),
                    owner |-> leases[calls[s].of].token = calls[s].token]
<1>3. signals' = signals \cup {sent}
  BY DEF Sent
<1>4. sent \in Signal /\ sent.hit = sent.lease /\ sent.lease \in expired /\ sent.owner
  BY <1>1, <1>2 DEF Signal
<1> HIDE DEF sent
<1> QED BY <1>2, <1>3, <1>4 DEF StoreInv, SignalsOnlyTheOwner, AllTypeOK, TypeOK

LEMMA SendTermKeeps ==
  ASSUME StoreInv, NEW s \in Servers, NEW saw \in Servers \cup {Nobody},
         SendTerm(s, saw), UNCHANGED <<expired, pids, serverVars>>, faults' \in 0..MaxFaults
  PROVE  StoreInv'
<1>1. /\ calls \in [Servers -> Call] /\ calls[s] \in Call /\ sigterms \subseteq Servers
      /\ CallInv(s) /\ ServerInv(s) /\ calls[s].at = "term" /\ calls[s].of \in Servers
  BY DEF StoreInv, AllTypeOK, TypeOK, SendTerm, CallInv, Granted
<1> DEFINE refusal == TargetRefusal(calls[s], leases[calls[s].of], saw)
<1>2. refusal \in Results /\ refusal # "released"
  BY DEF TargetRefusal, Results
<1>3. refusal # "closed"
  <2>1. leases[calls[s].of].status = "open"
    BY <1>1 DEF CallInv, Current, Knows, Holds, Critical
  <2> QED BY <2>1 DEF TargetRefusal
<1>4. \/ UNCHANGED <<signals, sigterms>>
      \/ SignalsOnlyTheOwner' /\ signals' \subseteq Signal /\ sigterms' \subseteq Servers
  <2>1. CASE refusal = ""
    BY <1>1, <2>1, SignalIsOwners DEF SendTerm, CallInv, Overdue
  <2> QED BY <2>1 DEF SendTerm
<1>5. PICK step \in {"grace", "unlock"} : Moves(s, step, refusal)
  BY DEF SendTerm, GoTo, Answer
<1> HIDE DEF refusal
<1> DEFINE c == [calls[s] EXCEPT !.at = step, !.result = refusal]
<1>6. /\ c \in Call /\ c.op = calls[s].op /\ c.of = calls[s].of /\ c.at = step
      /\ c.seen = calls[s].seen /\ c.result = refusal
  <2>1. step \in Critical
    BY DEF Critical
  <2> QED BY <1>1, <1>2, <2>1 DEF Call
<1>7. calls' = [calls EXCEPT ![s] = c]
  BY <1>5 DEF Moves
<1> HIDE DEF c
<1>8. calls'[s] = c
  BY <1>1, <1>7
<1>9. blind' \in 0..MaxFaults /\ (blind' = 0 => blind = 0)
  BY <1>1, LooksFacts DEF SendTerm
<1>10. (Granted(s) /\ Current(s) /\ Overdue(s) /\ Dead(s) /\ Freed(s))'
  BY <1>1, <1>2, <1>3, <1>6, <1>8 DEF SendTerm, CallInv, Granted, Current, Overdue, Dead,
     Freed, Holds, Knows, Closing, Critical
<1>11. phase[s] = "releasing" => c.op = "release" /\ c.of = s /\ c.at # "idle"
  BY <1>1, <1>6 DEF ServerInv
<1> QED
  BY <1>1, <1>4, <1>6, <1>7, <1>9, <1>10, <1>11, StoreMoves DEF SendTerm, Holds, Critical

\* A lock that is taken or given back is nobody else's.
LEMMA TakeLockKeeps ==
  ASSUME StoreInv, NEW s \in Servers, TakeLock(s), UNCHANGED <<expired, pids, serverVars>>, faults' \in 0..MaxFaults
  PROVE  StoreInv'
<1> DEFINE c == [calls[s] EXCEPT !.at = "read", !.result = ""]
<1>1. /\ calls \in [Servers -> Call] /\ calls[s] \in Call
      /\ CallInv(s) /\ ServerInv(s) /\ calls[s].at = "lock" /\ calls[s].of \in Servers
  BY DEF StoreInv, AllTypeOK, TypeOK, TakeLock, CallInv, Granted
<1>2. c \in Call /\ c.op = calls[s].op /\ c.of = calls[s].of /\ c.at = "read"
  BY <1>1 DEF Call, Critical, Results
<1>3. calls' = [calls EXCEPT ![s] = c]
  BY DEF TakeLock, GoTo, Moves
<1> HIDE DEF c
<1>4. calls' \in [Servers -> Call] /\ calls'[s] = c /\ \A t \in Servers \ {s} : calls'[t] = calls[t]
  BY <1>1, <1>2, <1>3
<1>5. AllTypeOK'
  BY <1>1, <1>4 DEF TakeLock, StoreInv, AllTypeOK, TypeOK, ServerTypeOK, serverVars
<1>6. ASSUME NEW t \in Servers PROVE CallInv(t)'
  <2>1. \A u \in Servers : Holds(u) => calls[u].of # calls[s].of
    BY DEF StoreInv, CallInv, Locked, TakeLock
  <2>2. CallInv(t)
    BY DEF StoreInv
  <2>3. CASE t = s
    BY <1>1, <1>2, <1>4, <2>1, <2>3 DEF TakeLock, CallInv, Granted, Locked, Alone, Current,
       Overdue, Dead, Freed, Holds, Knows, Closing, Critical
  <2>4. CASE t # s
    BY <1>1, <1>2, <1>4, <2>1, <2>2, <2>4 DEF TakeLock, CallInv, Granted, Locked, Alone, Current,
       Overdue, Dead, Freed, Holds, Knows, Closing, Critical
  <2> QED BY <2>3, <2>4
<1>7. ASSUME NEW t \in Servers PROVE ServerInv(t)'
  <2>1. ServerInv(t) /\ leases' = leases
    BY DEF StoreInv, TakeLock
  <2> QED
    BY <1>2, <1>4, <2>1 DEF ServerInv, serverVars
<1>8. ReapedInv' /\ SignalsOnlyTheOwner' /\ \A l \in Servers : LeaseInv(l)'
  BY DEF TakeLock, StoreInv, ReapedInv, SignalsOnlyTheOwner, LeaseInv
<1> QED BY <1>5, <1>6, <1>7, <1>8 DEF StoreInv

LEMMA UnlockKeeps ==
  ASSUME StoreInv, NEW s \in Servers, Unlock(s), UNCHANGED <<expired, pids, serverVars>>, faults' \in 0..MaxFaults
  PROVE  StoreInv'
<1> DEFINE d == [calls[s] EXCEPT !.at = "done", !.result = calls[s].result]
           c == IF calls[s].op = "reap" THEN Idle ELSE d
<1>1. /\ calls \in [Servers -> Call] /\ calls[s] \in Call
      /\ CallInv(s) /\ ServerInv(s) /\ calls[s].at = "unlock" /\ calls[s].of \in Servers
  BY DEF StoreInv, AllTypeOK, TypeOK, Unlock, CallInv, Granted
<1>2. /\ d \in Call /\ d.op = calls[s].op /\ d.of = calls[s].of /\ d.at = "done"
      /\ d.result = calls[s].result
  BY <1>1 DEF Call
<1>3. calls' = [calls EXCEPT ![s] = c]
  BY DEF Unlock, Ended
<1> HIDE DEF d
<1>4. c \in Call /\ ~(c.at \in Critical)
  BY <1>2, Facts DEF Critical
<1>5. calls' \in [Servers -> Call] /\ calls'[s] = c /\ \A t \in Servers \ {s} : calls'[t] = calls[t]
  BY <1>1, <1>3, <1>4
<1>6. AllTypeOK'
  BY <1>5 DEF Unlock, StoreInv, AllTypeOK, TypeOK, ServerTypeOK, serverVars
<1>7. CallInv(s)'
  <2>1. leases' = leases
    BY DEF Unlock
  <2> QED
    BY <1>1, <1>2, <1>4, <1>5, <2>1, Facts DEF CallInv, Granted, Locked, Alone, Current,
       Overdue, Dead, Freed, Holds, Knows, Closing, Critical
<1>8. ASSUME NEW t \in Servers \ {s} PROVE CallInv(t)'
  <2>1. CallInv(t) /\ CallInv(s)
    BY DEF StoreInv
  <2>2. Holds(t) => calls[t].of # calls[s].of
    BY <1>1, <2>1 DEF CallInv, Alone, Holds, Critical
  <2> QED
    BY <1>1, <1>4, <1>5, <2>1, <2>2 DEF Unlock, CallInv, Granted, Locked, Alone, Current,
       Overdue, Dead, Freed, Holds, Knows, Closing
<1>9. ASSUME NEW t \in Servers PROVE ServerInv(t)'
  <2>1. ServerInv(t) /\ leases' = leases
    BY DEF StoreInv, Unlock
  <2> QED
    BY <1>2, <1>5, <2>1 DEF ServerInv, serverVars
<1>10. ReapedInv' /\ SignalsOnlyTheOwner' /\ \A l \in Servers : LeaseInv(l)'
  BY DEF Unlock, StoreInv, ReapedInv, SignalsOnlyTheOwner, LeaseInv
<1> QED BY <1>6, <1>7, <1>8, <1>9, <1>10 DEF StoreInv

\* What a call writes replaces what it has read, and an open lease.
LEMMA WritesKeep ==
  ASSUME StoreInv, NEW s \in Servers, NEW lease \in Lease, NEW result \in Results,
         calls[s].at = "write", Store(s, lease, result),
         UNCHANGED <<expired, pids, serverVars>>, faults' \in 0..MaxFaults,
         lease.status \in {"open", "closed"},
         result \in {"released", "closed"} \/ calls[s].op = "release" => lease.status = "closed",
         \/ reaped' = reaped
         \/ reaped' = reaped \cup {calls[s].of} /\ calls[s].op = "reap"
  PROVE  StoreInv' /\ leases[calls[s].of].status = "open"
<1> DEFINE c == [calls[s] EXCEPT !.at = "unlock", !.result = result]
           l == calls[s].of
<1>1. /\ calls \in [Servers -> Call] /\ calls[s] \in Call
      /\ leases \in [Servers -> Lease] /\ locks \subseteq Servers /\ reaped \subseteq Servers
      /\ CallInv(s) /\ ServerInv(s) /\ l \in Servers
  BY DEF StoreInv, AllTypeOK, TypeOK, CallInv, Granted
<1>2. c \in Call /\ c.op = calls[s].op /\ c.of = l /\ c.at = "unlock" /\ c.result = result
  BY <1>1 DEF Call, Critical
<1>3. calls' = [calls EXCEPT ![s] = c]
  BY DEF Store, Answer, Moves
<1>4. leases[l].status = "open" /\ Holds(s)
  BY <1>1 DEF CallInv, Current, Knows, Holds, Critical
<1> HIDE DEF c
<1>5. calls' \in [Servers -> Call] /\ calls'[s] = c /\ \A t \in Servers \ {s} : calls'[t] = calls[t]
  BY <1>1, <1>2, <1>3
<1>6. /\ leases' \in [Servers -> Lease] /\ leases'[l] = lease
      /\ \A k \in Servers \ {l} : leases'[k] = leases[k]
  BY <1>1 DEF Store
<1>7. AllTypeOK'
  BY <1>1, <1>5, <1>6 DEF Store, StoreInv, AllTypeOK, TypeOK, ServerTypeOK, serverVars
<1>8. CallInv(s)'
  BY <1>1, <1>2, <1>4, <1>5, <1>6 DEF Store, CallInv, Granted, Locked, Alone, Current,
     Overdue, Dead, Freed, Holds, Knows, Closing, Critical
<1>9. ASSUME NEW t \in Servers \ {s} PROVE CallInv(t)'
  <2>1. CallInv(t)
    BY DEF StoreInv
  <2>2. Holds(t) => calls[t].of # l
    BY <1>1, <1>4 DEF CallInv, Alone
  <2>3. Freed(t)'
    BY <1>4, <1>5, <1>6, <2>1 DEF CallInv, Freed, Granted
  <2> QED
    BY <1>2, <1>4, <1>5, <1>6, <2>1, <2>2, <2>3 DEF Store, CallInv, Granted, Locked, Alone,
       Current, Overdue, Dead, Holds, Knows, Closing
<1>10. ASSUME NEW t \in Servers PROVE ServerInv(t)'
  <2>1. ServerInv(t)
    BY DEF StoreInv
  <2>2. leases[t].status = leases'[t].status \/ leases[t].status = "open"
    BY <1>4, <1>6
  <2>3. phase[t] = "releasing" => calls'[t].op = "release" /\ calls'[t].of = t
                                    /\ calls'[t].at # "idle"
    BY <1>2, <1>5, <2>1 DEF ServerInv
  <2>4. leases'[t].status = "none" <=> leases[t].status = "none"
    BY <1>4, <1>6
  <2>5. leases'[t].status = "open" => leases[t].status = "open"
    BY <1>4, <1>6
  <2> QED BY <2>1, <2>3, <2>4, <2>5 DEF ServerInv, serverVars
<1>11. \A k \in Servers : LeaseInv(k)'
  BY <1>6 DEF StoreInv, LeaseInv
<1>12. ReapedInv'
  <2>1. calls[s].op = "reap" /\ blind = 0 => l \notin alive
    BY <1>1 DEF CallInv, Dead, Closing
  <2> QED BY <1>1, <1>6, <2>1 DEF StoreInv, ReapedInv, Store
<1>13. SignalsOnlyTheOwner'
  BY DEF Store, StoreInv, SignalsOnlyTheOwner
<1> QED BY <1>4, <1>7, <1>8, <1>9, <1>10, <1>11, <1>12, <1>13 DEF StoreInv

-----------------------------------------------------------------------------
\* What ends takes nothing with it but its own call.
LEMMA EndKeeps ==
  ASSUME StoreInv, NEW gone \in SUBSET Servers, NEW p \in {"exited", "killed", "crashed"},
         End(gone, p), leases' = leases,
         \A t \in Servers \ gone : phase[t] = "releasing" =>
            calls'[t].op = calls[t].op /\ calls'[t].of = calls[t].of /\ calls'[t].at # "idle",
         p = "exited" => \A t \in gone : leases[t].status = "open" /\ t \in held => noted[t] # ""
  PROVE  ServerTypeOK' /\ \A t \in Servers : ServerInv(t)'
<1>1. ServerTypeOK
  BY DEF StoreInv, AllTypeOK
<1>2. ServerTypeOK'
  BY <1>1 DEF End, ServerTypeOK, Phases, Reasons
<1>3. ASSUME NEW t \in gone PROVE ServerInv(t)'
  BY DEF End, ServerInv
<1>4. ASSUME NEW t \in Servers \ gone PROVE ServerInv(t)'
  <2>1. ServerInv(t) /\ phase'[t] = phase[t] /\ noted'[t] = noted[t]
        /\ (t \in owned <=> t \in owned') /\ held' = held
    BY DEF StoreInv, End
  <2> QED BY <2>1 DEF ServerInv
<1> QED BY <1>2, <1>3, <1>4

LEMMA IdleInv ==
  ASSUME NEW t \in Servers, calls'[t] = Idle
  PROVE  CallInv(t)'
BY Facts DEF CallInv, Granted, Locked, Alone, Current, Overdue, Dead, Freed, Holds, Knows,
   Closing, Critical

LEMMA CallKept ==
  ASSUME NEW t \in Servers, CallInv(t), calls'[t] = calls[t],
         UNCHANGED <<leases, locks, expired>>, alive' \subseteq alive,
         blind' = 0 => blind = 0,
         \A u \in Servers : Holds(u)' => Holds(u) /\ calls'[u].of = calls[u].of
  PROVE  CallInv(t)'
BY DEF CallInv, Granted, Locked, Alone, Current, Overdue, Dead, Freed, Holds, Knows, Closing

LEMMA DieKeeps ==
  ASSUME StoreInv, NEW s \in Servers, NEW p \in {"exited", "killed", "crashed"},
         Die(s), Ends(s, p), UNCHANGED <<expired, pids, faults>>,
         p = "exited" => (leases[s].status = "open" /\ s \in held => noted[s] # "")
  PROVE  StoreInv'
<1>1. calls \in [Servers -> Call] /\ TypeOK
  BY DEF StoreInv, AllTypeOK, TypeOK
<1>2. /\ calls' \in [Servers -> Call] /\ calls'[s] = Idle
      /\ \A t \in Servers \ {s} : calls'[t] = calls[t]
  BY <1>1, Facts DEF Die
<1>3. TypeOK'
  BY <1>1, <1>2 DEF Die, TypeOK
<1>4. ServerTypeOK' /\ \A t \in Servers : ServerInv(t)'
  <2>1. \A t \in Servers \ {s} : phase[t] = "releasing" =>
            calls'[t].op = calls[t].op /\ calls'[t].of = calls[t].of /\ calls'[t].at # "idle"
    BY <1>2 DEF StoreInv, ServerInv
  <2> QED BY <2>1, EndKeeps DEF Ends, Die
<1>5. \A u \in Servers : Holds(u)' => Holds(u) /\ calls'[u].of = calls[u].of
  BY <1>2, Facts DEF Holds, Critical
<1>6. ASSUME NEW t \in Servers PROVE CallInv(t)'
  <2>1. CASE t = s
    BY <1>2, <2>1, IdleInv
  <2>2. CASE t # s
    BY <1>2, <1>5, <2>2, CallKept DEF Die, StoreInv
  <2> QED BY <2>1, <2>2
<1>7. ReapedInv' /\ SignalsOnlyTheOwner' /\ \A l \in Servers : LeaseInv(l)'
  BY DEF Die, StoreInv, ReapedInv, SignalsOnlyTheOwner, LeaseInv
<1> QED BY <1>3, <1>4, <1>6, <1>7 DEF StoreInv, AllTypeOK

LEMMA SendKillKeeps ==
  ASSUME StoreInv, NEW s \in Servers, NEW saw \in Servers \cup {Nobody},
         SendKill(s, saw), End(alive \ alive', "killed"), UNCHANGED <<expired, pids, faults>>
  PROVE  StoreInv'
<1> DEFINE l == calls[s].of
           refusal == TargetRefusal(calls[s], leases[l], saw)
<1>1. /\ calls \in [Servers -> Call] /\ calls[s] \in Call /\ sigterms \subseteq Servers
      /\ alive \subseteq Servers /\ TypeOK
      /\ CallInv(s) /\ ServerInv(s) /\ calls[s].at = "kill" /\ l \in Servers
  BY DEF StoreInv, AllTypeOK, TypeOK, SendKill, CallInv, Granted
<1>2. refusal \in Results \ {"released", "closed"}
  <2>1. leases[l].status = "open"
    BY <1>1 DEF CallInv, Current, Knows, Holds, Critical
  <2> QED BY <2>1 DEF TargetRefusal, Results
<1>3. blind' \in 0..MaxFaults /\ (blind' = 0 => blind = 0)
  BY <1>1, LooksFacts DEF SendKill
<1>4. CASE refusal = ""
  <2>1. /\ SignalsOnlyTheOwner' /\ signals' \subseteq Signal
        /\ Occupant(l) = l
    BY <1>1, <1>4, SignalIsOwners DEF SendKill, CallInv, Overdue
  <2>2. alive' = alive \ {l} /\ UNCHANGED <<leases, locks, reaped>> /\ sigterms' = sigterms \ {l}
    BY <1>4, <2>1 DEF SendKill
  <2> DEFINE d == [calls[s] EXCEPT !.at = "final"]
             c == IF s = l THEN Idle ELSE d
  <2>3. d \in Call /\ d.op = calls[s].op /\ d.of = l /\ d.at = "final" /\ d.seen = calls[s].seen
    BY <1>1 DEF Call, Critical
  <2>4. calls' = [calls EXCEPT ![s] = d, ![l] = Idle]
    BY <1>4, <2>1 DEF SendKill
  <2> HIDE DEF d
  <2>5. /\ calls' \in [Servers -> Call] /\ calls'[s] = c
        /\ calls'[l] = Idle
        /\ \A t \in Servers \ {s, l} : calls'[t] = calls[t]
    BY <1>1, <2>3, <2>4, Facts
  <2>6. TypeOK'
    BY <1>1, <1>3, <2>1, <2>2, <2>5 DEF TypeOK
  <2>7. alive \ alive' = {l}
    BY <1>1, <2>1, <2>2, OccupantFacts, Facts DEF StoreInv
  <2>8. ServerTypeOK' /\ \A t \in Servers : ServerInv(t)'
    <3>1. ASSUME NEW t \in Servers \ {l}, phase[t] = "releasing"
          PROVE  calls'[t].op = calls[t].op /\ calls'[t].of = calls[t].of /\ calls'[t].at # "idle"
      BY <1>1, <2>3, <2>5, <3>1 DEF StoreInv, ServerInv
    <3> QED BY <1>1, <2>2, <2>7, <3>1, EndKeeps
  <2>9. \A u \in Servers : Holds(u)' => Holds(u) /\ calls'[u].of = calls[u].of
    BY <1>1, <2>3, <2>5, Facts DEF Holds, Critical
  <2>10. ASSUME NEW t \in Servers PROVE CallInv(t)'
    <3>1. CASE t = l
      BY <2>5, <3>1, IdleInv
    <3>2. CASE t # l /\ t = s
      <4>1. calls'[s] = d /\ l \notin alive'
        BY <2>2, <2>5, <3>2
      <4>2. Locked(s)' /\ Alone(s)'
        BY <1>1, <2>2, <2>9 DEF CallInv, Locked, Alone, Holds, Critical
      <4> QED
        BY <1>1, <2>2, <2>3, <3>2, <4>1, <4>2 DEF CallInv, Granted, Current, Overdue, Dead, Freed,
           Holds, Knows, Closing, Critical
    <3>3. CASE t # l /\ t # s
      BY <1>3, <2>2, <2>5, <2>9, <3>3, CallKept DEF StoreInv
    <3> QED BY <3>1, <3>2, <3>3
  <2>11. ReapedInv' /\ \A k \in Servers : LeaseInv(k)'
    BY <1>3, <2>2 DEF StoreInv, ReapedInv, LeaseInv
  <2> QED BY <2>1, <2>6, <2>8, <2>10, <2>11 DEF StoreInv, AllTypeOK
<1>5. CASE refusal # ""
  <2> DEFINE c == [calls[s] EXCEPT !.at = "unlock", !.result = refusal]
  <2>1. calls' = [calls EXCEPT ![s] = c]
    BY <1>5 DEF SendKill, Answer, Moves
  <2>2. UNCHANGED <<leases, locks, alive, expired, reaped, pids, signals, sigterms>>
    BY <1>5 DEF SendKill
  <2>3. UNCHANGED serverVars
    BY <2>2, NobodyGone DEF StoreInv
  <2> HIDE DEF refusal
  <2>4. /\ c \in Call /\ c.op = calls[s].op /\ c.of = l /\ c.at = "unlock"
        /\ c.result = refusal
    BY <1>1, <1>2 DEF Call, Critical
  <2> HIDE DEF c
  <2>5. calls'[s] = c
    BY <1>1, <2>1
  <2>6. (Granted(s) /\ Current(s) /\ Overdue(s) /\ Dead(s) /\ Freed(s))'
    BY <1>1, <1>2, <2>2, <2>4, <2>5 DEF CallInv, Granted, Current, Overdue, Dead,
       Freed, Holds, Knows, Closing, Critical
  <2>7. phase[s] = "releasing" => c.op = "release" /\ c.of = s /\ c.at # "idle"
    BY <1>1, <2>4 DEF ServerInv
  <2>8. Holds(s)
    BY <1>1 DEF Holds, Critical
  <2>9. faults' \in 0..MaxFaults
    BY <1>1 DEF TypeOK
  <2> QED BY <1>3, <2>1, <2>2, <2>3, <2>4, <2>6, <2>7, <2>8, <2>9, StoreMoves
<1> QED BY <1>4, <1>5

-----------------------------------------------------------------------------
LEMMA ChangedLease ==
  ASSUME NEW r \in Lease
  PROVE  /\ Abstract!HandedOver(r) \in Lease /\ Abstract!HandedOver(r).status = r.status
         /\ Abstract!Closed(r) \in Lease /\ Abstract!Closed(r).status = "closed"
<1>1. r.token \in Nat /\ r.version \in Nat /\ r.status \in {"none", "open", "closed"}
  BY DEF Lease
<1>2. r.token + 1 \in Nat /\ r.version + 1 \in Nat
  BY <1>1
<1>3. Abstract!HandedOver(r) \in Lease /\ Abstract!HandedOver(r).status = r.status
  BY <1>2 DEF Lease, Abstract!HandedOver
<1>4. Abstract!Closed(r) \in Lease /\ Abstract!Closed(r).status = "closed"
  BY <1>2 DEF Lease, Abstract!Closed
<1> QED BY <1>3, <1>4

\* A write of a call is a change that the record allows.
LEMMA WriteSteps ==
  ASSUME StoreInv, NEW s \in Servers, NEW answer \in Results,
         UNCHANGED <<expired, pids, serverVars>>, faults' \in 0..MaxFaults,
         \/ handoff(s, answer) /\ answer \notin {"released", "closed"}
         \/ release(s, answer)
         \/ closeWithinLock(s, answer)
  PROVE  /\ StoreInv'
         /\ \/ Abstract!HandOver(calls[s].of)
            \/ Abstract!Close(calls[s].of)
<1> DEFINE l == calls[s].of
<1>1. /\ calls[s] \in Call /\ leases \in [Servers -> Lease] /\ CallInv(s)
      /\ calls[s].at = "write"
  BY DEF StoreInv, AllTypeOK, TypeOK, handoff, release, closeWithinLock
<1>2. /\ l \in Servers /\ leases[l] \in Lease /\ calls[s].seen = leases[l]
      /\ leases[l].status = "open"
  BY <1>1 DEF CallInv, Granted, Current, Knows, Holds, Critical
<1>3. /\ Abstract!HandedOver(leases[l]) \in Lease /\ Abstract!HandedOver(leases[l]).status = "open"
      /\ Abstract!Closed(leases[l]) \in Lease /\ Abstract!Closed(leases[l]).status = "closed"
  BY <1>2, ChangedLease
<1>4. CASE handoff(s, answer) /\ answer \notin {"released", "closed"}
  <2>1. Store(s, Abstract!HandedOver(leases[l]), answer) /\ calls[s].op = "handoff"
    BY <1>2, <1>4 DEF handoff
  <2>2. StoreInv'
    BY <1>1, <1>3, <1>4, <2>1, WritesKeep DEF handoff
  <2> QED BY <1>2, <2>1, <2>2 DEF Store, Abstract!HandOver
<1>5. CASE release(s, answer)
  <2>1. Store(s, Abstract!Closed(leases[l]), answer)
    BY <1>2, <1>5 DEF release
  <2>2. StoreInv'
    BY <1>1, <1>3, <1>5, <2>1, WritesKeep DEF release
  <2> QED BY <1>2, <2>1, <2>2 DEF Store, Abstract!Close
<1>6. CASE closeWithinLock(s, answer)
  <2>1. Store(s, Abstract!Closed(leases[l]), answer) /\ calls[s].op = "reap"
    BY <1>2, <1>6 DEF closeWithinLock
  <2>2. StoreInv'
    BY <1>1, <1>3, <1>6, <2>1, WritesKeep DEF closeWithinLock
  <2> QED BY <1>2, <2>1, <2>2 DEF Store, Abstract!Close
<1> QED BY <1>4, <1>5, <1>6

\* A read or a write that fails has the call give its lock back.
LEMMA AnswerKeeps ==
  ASSUME StoreInv, NEW s \in Servers, NEW result \in Results \ {"released", "closed"},
         Answer(s, result),
         UNCHANGED <<leases, locks, sigterms, alive, signals, reaped, blind>>,
         UNCHANGED <<expired, pids, serverVars>>, faults' \in 0..MaxFaults,
         Holds(s)
  PROVE  StoreInv'
<1> DEFINE c == [calls[s] EXCEPT !.at = "unlock", !.result = result]
<1>1. /\ calls \in [Servers -> Call] /\ calls[s] \in Call /\ blind \in 0..MaxFaults
      /\ CallInv(s) /\ ServerInv(s)
  BY DEF StoreInv, AllTypeOK, TypeOK
<1>2. calls' = [calls EXCEPT ![s] = c]
  BY DEF Answer, Moves
<1>3. /\ c \in Call /\ c.op = calls[s].op /\ c.of = calls[s].of /\ c.at = "unlock"
      /\ c.result = result
  BY <1>1 DEF Call, Critical
<1> HIDE DEF c
<1>4. calls'[s] = c
  BY <1>1, <1>2
<1>5. (Granted(s) /\ Current(s) /\ Overdue(s) /\ Dead(s) /\ Freed(s))'
  BY <1>1, <1>3, <1>4 DEF CallInv, Granted, Current, Overdue, Dead, Freed, Holds, Knows,
     Closing, Critical
<1>6. phase[s] = "releasing" => c.op = "release" /\ c.of = s /\ c.at # "idle"
  BY <1>1, <1>3 DEF ServerInv
<1> QED BY <1>1, <1>2, <1>3, <1>5, <1>6, StoreMoves

\* What the record sees of a step.
RecordStep == Abstract!Next \/ UNCHANGED leases

LEMMA CallStepKeeps ==
  ASSUME StoreInv, NEW s \in Servers, CallStep(s)
  PROVE  StoreInv' /\ RecordStep
<1> USE DEF RecordStep
<1>1. UNCHANGED <<expired, pids, serverVars>> /\ faults' \in 0..MaxFaults
  BY DEF CallStep, StoreInv, AllTypeOK, TypeOK
<1>2. CASE TakeLock(s)
  BY <1>1, <1>2, TakeLockKeeps DEF TakeLock
<1>3. CASE LockTimeout(s)
  BY <1>1, <1>3, EndedKeeps DEF LockTimeout, Results
<1>4. CASE Unlock(s)
  BY <1>1, <1>4, UnlockKeeps DEF Unlock
<1>5. CASE ReadByOwner(s) \/ ReadByReaper(s) \/ ReadFinal(s)
  <2>1. leases' = leases
    BY <1>5 DEF ReadByOwner, ReadByReaper, ReadFinal, Proceed
  <2> QED BY <1>1, <1>5, <2>1, ReadsKeep
<1>6. CASE handoff(s, "handed_over") \/ release(s, "released") \/ closeWithinLock(s, calls[s].result)
  <2>1. calls[s].of \in Servers /\ calls[s].result \in Results
    BY <1>6 DEF StoreInv, AllTypeOK, TypeOK, Call, CallInv, Granted, handoff, release,
       closeWithinLock
  <2>2. "handed_over" \in Results \ {"released", "closed"} /\ "released" \in Results
    BY DEF Results
  <2>3. StoreInv' /\ (Abstract!HandOver(calls[s].of) \/ Abstract!Close(calls[s].of))
    BY <1>1, <1>6, <2>1, <2>2, WriteSteps
  <2> QED BY <2>1, <2>3 DEF Abstract!Next
<1> QED
  <2>1. StoreStep(s)
    BY DEF CallStep
  <2> QED
    BY <2>1, <1>2, <1>3, <1>4, <1>5, <1>6, Zenon DEF StoreStep

LEMMA PsAnswersKeeps ==
  ASSUME StoreInv, NEW s \in Servers, PsAnswers(s)
  PROVE  StoreInv' /\ RecordStep
<1> USE DEF RecordStep
<1>1. /\ alive' = alive => UNCHANGED serverVars
      /\ faults' \in 0..MaxFaults
  BY NobodyGone DEF PsAnswers, StoreInv, AllTypeOK, TypeOK
<1>2. PICK saw \in Servers \cup {Nobody} :
        LookAtOwner(s, saw) \/ SendTerm(s, saw) \/ LookAfterTerm(s, saw) \/ SendKill(s, saw)
  BY DEF PsAnswers, PsStep
<1>3. CASE LookAtOwner(s, saw)
  BY <1>1, <1>3, LookAtOwnerKeeps DEF PsAnswers, LookAtOwner
<1>4. CASE SendTerm(s, saw)
  BY <1>1, <1>4, SendTermKeeps DEF PsAnswers, SendTerm
<1>5. CASE LookAfterTerm(s, saw)
  BY <1>1, <1>5, LookAfterTermKeeps DEF PsAnswers, LookAfterTerm
<1>6. CASE SendKill(s, saw)
  BY <1>6, SendKillKeeps DEF PsAnswers, SendKill
<1> QED BY <1>2, <1>3, <1>4, <1>5, <1>6

LEMMA StoreFailsKeeps ==
  ASSUME StoreInv, NEW s \in Servers, StoreFails(s),
         UNCHANGED <<expired, pids, serverVars>>, faults' \in 0..MaxFaults
  PROVE  StoreInv' /\ RecordStep
<1> USE DEF RecordStep
<1>1. {"io_error", "unowned", "owner_mismatch"} \subseteq Results \ {"released", "closed"}
  BY DEF Results
<1>2. calls[s].result \in Results /\ CallInv(s)
  BY DEF StoreInv, AllTypeOK, TypeOK, Call
<1>3. CASE LockFails(s) \/ UnlockFails(s)
  <2>1. PICK result \in Results :
          /\ Ended(s, result)
          /\ result = "io_error" \/ (result = calls[s].result /\ calls[s].at = "unlock")
    BY <1>1, <1>2, <1>3 DEF LockFails, UnlockFails
  <2>2. /\ UNCHANGED <<leases, locks, sigterms, alive, signals, reaped, blind>>
        /\ calls[s].at \in {"lock", "unlock"}
    BY <1>3 DEF LockFails, UnlockFails
  <2> QED BY <2>1, <2>2, EndedKeeps
<1>4. CASE ReadFails(s)
  BY <1>1, <1>4, AnswerKeeps DEF ReadFails, Holds, Critical
<1>5. CASE /\ calls[s].at = "write" /\ Answer(s, "io_error")
           /\ UNCHANGED <<leases, locks, sigterms, alive, signals, reaped, blind>>
  BY <1>1, <1>5, AnswerKeeps DEF Holds, Critical
<1>6. CASE handoff(s, "io_error") \/ release(s, "io_error") \/ closeWithinLock(s, "io_error")
  <2>1. calls[s].of \in Servers
    BY <1>2, <1>6 DEF CallInv, Granted, handoff, release, closeWithinLock
  <2>2. StoreInv' /\ (Abstract!HandOver(calls[s].of) \/ Abstract!Close(calls[s].of))
    BY <1>1, <1>6, WriteSteps
  <2> QED BY <2>1, <2>2 DEF Abstract!Next
<1> QED BY <1>3, <1>4, <1>5, <1>6 DEF StoreFails, WriteThrows

-----------------------------------------------------------------------------
\* A server goes on, and its calls do not.
LEMMA ServerMoves ==
  ASSUME StoreInv, NEW s \in Servers, sigterms' \subseteq sigterms,
         UNCHANGED <<leases, locks, calls, alive, signals, reaped, blind, pids>>,
         faults' \in 0..MaxFaults,
         expired \subseteq expired', expired' \subseteq Servers,
         ServerTypeOK', \A t \in Servers : ServerInv(t)'
  PROVE  StoreInv'
<1>1. TypeOK' /\ ReapedInv' /\ \A l \in Servers : LeaseInv(l)'
  BY DEF StoreInv, AllTypeOK, TypeOK, ReapedInv, LeaseInv
<1>2. ASSUME NEW t \in Servers PROVE CallInv(t)'
  <2>1. CallInv(t)
    BY DEF StoreInv
  <2> QED BY <2>1 DEF CallInv, Granted, Locked, Alone, Current, Overdue, Dead, Freed,
    Holds, Knows, Closing
<1>3. SignalsOnlyTheOwner'
  BY DEF StoreInv, SignalsOnlyTheOwner
<1> QED BY <1>1, <1>2, <1>3 DEF StoreInv, AllTypeOK

\* A call begins, or its answer is taken.
LEMMA BeginKeeps ==
  ASSUME StoreInv, NEW s \in Servers, NEW op \in {"handoff", "release", "reap"},
         NEW l \in Servers, leases[l].status # "none", NEW token \in Nat, NEW version \in Nat,
         Begin(s, op, l, token, version), UNCHANGED <<expired, pids, faults>>
  PROVE  /\ TypeOK' /\ ReapedInv' /\ SignalsOnlyTheOwner'
         /\ (\A k \in Servers : LeaseInv(k)') /\ \A t \in Servers : CallInv(t)'
         /\ calls'[s].op = op /\ calls'[s].of = l /\ calls'[s].at = "lock"
         /\ \A t \in Servers \ {s} : calls'[t] = calls[t]
<1> DEFINE c == Begun(op, l, token, version)
<1>1. calls \in [Servers -> Call] /\ TypeOK
  BY DEF StoreInv, AllTypeOK, TypeOK
<1>2. c \in Call /\ c.op = op /\ c.of = l /\ c.at = "lock"
  BY Facts DEF Begun, Call, Waiting
<1>3. calls' = [calls EXCEPT ![s] = c]
  BY DEF Begin
<1> HIDE DEF c
<1>4. calls' \in [Servers -> Call] /\ calls'[s] = c /\ \A t \in Servers \ {s} : calls'[t] = calls[t]
  BY <1>1, <1>2, <1>3
<1>5. (Granted(s) /\ Current(s) /\ Overdue(s) /\ Dead(s) /\ Freed(s))'
  BY <1>2, <1>4 DEF Begin, Granted, Current, Overdue, Dead, Freed, Holds, Knows, Closing, Critical
<1>6. /\ \A k \in Servers : LeaseInv(k)'
      /\ \A t \in Servers : CallInv(t)'
      /\ ReapedInv'
  BY <1>2, <1>3, <1>5, CallMoves DEF Begin, Critical
<1>7. TypeOK'
  BY <1>1, <1>4 DEF Begin, TypeOK
<1>8. SignalsOnlyTheOwner'
  BY DEF Begin, StoreInv, SignalsOnlyTheOwner
<1> QED BY <1>2, <1>4, <1>6, <1>7, <1>8

LEMMA ReturnKeeps ==
  ASSUME StoreInv, NEW s \in Servers, Return(s), UNCHANGED <<expired, pids, faults>>
  PROVE  /\ TypeOK' /\ ReapedInv' /\ SignalsOnlyTheOwner'
         /\ (\A k \in Servers : LeaseInv(k)') /\ \A t \in Servers : CallInv(t)'
         /\ calls'[s] = Idle
         /\ \A t \in Servers \ {s} : calls'[t] = calls[t]
<1>1. calls \in [Servers -> Call] /\ TypeOK
  BY DEF StoreInv, AllTypeOK, TypeOK
<1>2. /\ calls' \in [Servers -> Call] /\ calls'[s] = Idle
      /\ \A t \in Servers \ {s} : calls'[t] = calls[t]
  BY <1>1, Facts DEF Return
<1>3. TypeOK'
  BY <1>1, <1>2 DEF Return, TypeOK
<1>4. \A u \in Servers : Holds(u)' => Holds(u) /\ calls'[u].of = calls[u].of
  BY <1>2, Facts DEF Holds, Critical
<1>5. ASSUME NEW t \in Servers PROVE CallInv(t)'
  <2>1. CASE t = s
    BY <1>2, <2>1, IdleInv
  <2>2. CASE t # s
    BY <1>2, <1>4, <2>2, CallKept DEF Return, StoreInv
  <2> QED BY <2>1, <2>2
<1>6. ReapedInv' /\ SignalsOnlyTheOwner' /\ \A l \in Servers : LeaseInv(l)'
  BY DEF Return, StoreInv, ReapedInv, SignalsOnlyTheOwner, LeaseInv
<1> QED BY <1>2, <1>3, <1>5, <1>6

-----------------------------------------------------------------------------
LEMMA StartKeeps ==
  ASSUME StoreInv, NEW s \in Servers, Start(s)
  PROVE  StoreInv' /\ RecordStep
<1>1. TypeOK /\ ServerTypeOK /\ ServerInv(s) /\ phase[s] = "none" /\ leases[s].status = "none"
  BY DEF StoreInv, AllTypeOK, Start, ServerInv
<1>2. TypeOK'
  BY <1>1 DEF Start, TypeOK
<1>3. ServerTypeOK'
  BY <1>1 DEF Start, ServerTypeOK, Becomes, Phases
<1>4. ASSUME NEW t \in Servers PROVE CallInv(t)'
  <2>1. CallInv(t)
    BY DEF StoreInv
  <2>2. Dead(t)'
    BY <1>1, <2>1 DEF Start, CallInv, Granted, Dead, Closing
  <2> QED
    BY <2>1, <2>2 DEF Start, CallInv, Granted, Locked, Alone, Current, Overdue, Freed, Holds, Knows
<1>5. ASSUME NEW t \in Servers PROVE ServerInv(t)'
  <2>1. ServerInv(t) /\ phase' = [phase EXCEPT ![s] = "reconcile"]
    BY DEF StoreInv, Start, Becomes
  <2> QED BY <1>1, <2>1 DEF Start, ServerInv, ServerTypeOK
<1>6. ReapedInv' /\ SignalsOnlyTheOwner' /\ \A l \in Servers : LeaseInv(l)'
  BY <1>1 DEF Start, StoreInv, ReapedInv, SignalsOnlyTheOwner, LeaseInv
<1> QED BY <1>2, <1>3, <1>4, <1>5, <1>6 DEF StoreInv, AllTypeOK, RecordStep, Start

\* A lease is granted, whether its server hears of it or not.
LEMMA GrantKeeps ==
  ASSUME StoreInv, NEW s \in Servers, acquire(s), phase[s] = "reconcile",
         UNCHANGED <<expired, pids>>, faults' \in 0..MaxFaults
  PROVE  /\ TypeOK' /\ ReapedInv' /\ SignalsOnlyTheOwner'
         /\ (\A l \in Servers : LeaseInv(l)') /\ \A t \in Servers : CallInv(t)'
         /\ leases'[s].status = "open" /\ \A l \in Servers \ {s} : leases'[l] = leases[l]
         /\ calls' = calls
         /\ Abstract!Grant(s)
<1>1. /\ TypeOK /\ ServerInv(s) /\ leases[s].status = "none" /\ leases[s] = Abstract!Unleased
  BY DEF StoreInv, AllTypeOK, ServerInv, LeaseInv
<1>2. /\ leases' \in [Servers -> Lease] /\ leases'[s] = Abstract!Granted
      /\ \A l \in Servers \ {s} : leases'[l] = leases[l]
  BY <1>1, Facts DEF acquire, TypeOK
<1>3. Abstract!Granted.status = "open"
  BY DEF Abstract!Granted
<1>4. UNCHANGED <<locks, calls, expired, alive, sigterms, signals, reaped, blind, pids>>
  BY DEF acquire
<1>5. TypeOK'
  BY <1>1, <1>2, <1>4 DEF TypeOK
<1>6. ASSUME NEW t \in Servers PROVE CallInv(t)'
  <2>1. CallInv(t) /\ (calls[t].at # "idle" => calls[t].of \in Servers \ {s})
    BY <1>1 DEF StoreInv, CallInv, Granted
  <2>2. calls[t].at # "idle" => leases'[calls[t].of] = leases[calls[t].of]
    BY <1>2, <2>1
  <2> QED
    BY <1>4, <2>1, <2>2 DEF CallInv, Granted, Locked, Alone, Current, Overdue, Dead, Freed,
       Holds, Knows, Closing, Critical
<1>7. ReapedInv'
  BY <1>1, <1>2, <1>4 DEF StoreInv, ReapedInv, TypeOK
<1>8. \A l \in Servers : LeaseInv(l)'
  BY <1>2, <1>3 DEF StoreInv, LeaseInv
<1>9. SignalsOnlyTheOwner'
  BY <1>4 DEF StoreInv, SignalsOnlyTheOwner
<1>10. Abstract!Grant(s)
  BY <1>1 DEF Abstract!Grant, acquire
<1> QED BY <1>2, <1>3, <1>4, <1>5, <1>6, <1>7, <1>8, <1>9, <1>10

LEMMA AcquireLeaseKeeps ==
  ASSUME StoreInv, NEW s \in Servers, AcquireLease(s)
  PROVE  StoreInv' /\ RecordStep
<1>1. /\ ServerTypeOK /\ TypeOK /\ acquire(s) /\ phase[s] = "reconcile"
      /\ UNCHANGED <<expired, pids, faults, todo, stop, once, noted>>
      /\ phase' = [phase EXCEPT ![s] = "opening"]
      /\ owned' = owned \cup {s} /\ held' = held \cup {s}
  BY DEF StoreInv, AllTypeOK, AcquireLease, Becomes
<1>2. faults' \in 0..MaxFaults
  BY <1>1 DEF TypeOK
<1>3. /\ TypeOK' /\ ReapedInv' /\ SignalsOnlyTheOwner'
      /\ (\A l \in Servers : LeaseInv(l)') /\ \A t \in Servers : CallInv(t)'
      /\ leases'[s].status = "open" /\ \A l \in Servers \ {s} : leases'[l] = leases[l]
      /\ calls' = calls
      /\ Abstract!Grant(s)
  BY <1>1, <1>2, GrantKeeps
<1>4. ServerTypeOK'
  BY <1>1 DEF ServerTypeOK, Phases
<1>5. ASSUME NEW t \in Servers PROVE ServerInv(t)'
  <2>1. ServerInv(t)
    BY DEF StoreInv
  <2>2. CASE t = s
    BY <1>1, <1>3, <2>1, <2>2 DEF ServerInv, ServerTypeOK
  <2>3. CASE t # s
    BY <1>1, <1>3, <2>1, <2>3 DEF ServerInv, ServerTypeOK
  <2> QED BY <2>2, <2>3
<1> QED
  BY <1>3, <1>4, <1>5 DEF StoreInv, AllTypeOK, RecordStep, Abstract!Next

LEMMA AcquireThrowsKeeps ==
  ASSUME StoreInv, NEW s \in Servers, AcquireThrows(s), faults' \in 0..MaxFaults
  PROVE  StoreInv' /\ RecordStep
<1>1. /\ ServerTypeOK /\ TypeOK /\ phase[s] = "reconcile"
      /\ UNCHANGED <<expired, pids, todo, once, owned, held, noted>>
      /\ phase' = [phase EXCEPT ![s] = "closing"] /\ stop' = [stop EXCEPT ![s] = "exit"]
  BY DEF StoreInv, AllTypeOK, AcquireThrows, Becomes
<1>2. ServerInv(s) /\ s \notin owned /\ s \notin held
  BY <1>1 DEF StoreInv, ServerInv
<1>3. ServerTypeOK'
  BY <1>1 DEF ServerTypeOK, Phases, Reasons
<1>4. CASE acquire(s)
  <2>1. /\ TypeOK' /\ ReapedInv' /\ SignalsOnlyTheOwner'
        /\ (\A l \in Servers : LeaseInv(l)') /\ \A t \in Servers : CallInv(t)'
        /\ leases'[s].status = "open" /\ \A l \in Servers \ {s} : leases'[l] = leases[l]
        /\ calls' = calls
        /\ Abstract!Grant(s)
    BY <1>1, <1>4, GrantKeeps
  <2>2. ASSUME NEW t \in Servers PROVE ServerInv(t)'
    <3>1. ServerInv(t)
      BY DEF StoreInv
    <3>2. CASE t = s
      BY <1>1, <1>2, <2>1, <3>1, <3>2 DEF ServerInv, ServerTypeOK
    <3>3. CASE t # s
      BY <1>1, <2>1, <3>1, <3>3 DEF ServerInv, ServerTypeOK
    <3> QED BY <3>2, <3>3
  <2> QED BY <1>3, <2>1, <2>2 DEF StoreInv, AllTypeOK, RecordStep, Abstract!Next
<1>5. CASE UNCHANGED storeVars
  <2>1. ASSUME NEW t \in Servers PROVE ServerInv(t)'
    <3>1. ServerInv(t)
      BY DEF StoreInv
    <3> QED BY <1>1, <1>2, <1>5, <3>1 DEF ServerInv, ServerTypeOK, storeVars
  <2>2. expired \subseteq Servers
    BY <1>1 DEF TypeOK
  <2> QED BY <1>1, <1>3, <1>5, <2>1, <2>2, ServerMoves DEF storeVars, RecordStep
<1> QED BY <1>4, <1>5 DEF AcquireThrows

\* The steps of a server that leave its call alone.
LEMMA PhaseSteps ==
  ASSUME StoreInv, NEW s \in Servers,
         \/ StartupThrows(s) \/ RuntimeOpens(s)
         \/ \E reason \in {"eof", "exit"} : BeginShutdown(s, reason)
         \/ ReleaseTimesOut(s) \/ Expire(s)
  PROVE  StoreInv' /\ RecordStep
<1>1. ServerTypeOK /\ TypeOK
  BY DEF StoreInv, AllTypeOK
<1>2. ServerTypeOK'
  <2>1. /\ \A p \in Phases : [phase EXCEPT ![s] = p] \in [Servers -> Phases]
        /\ \A r \in Reasons : [stop EXCEPT ![s] = r] \in [Servers -> Reasons]
    BY <1>1 DEF ServerTypeOK
  <2>2. CASE StartupThrows(s)
    <3>1. /\ phase' = [phase EXCEPT ![s] = "closing"] /\ stop' = [stop EXCEPT ![s] = "exit"]
          /\ UNCHANGED <<todo, once, owned, held, noted>>
      BY <2>2 DEF StartupThrows, Becomes
    <3>2. "closing" \in Phases /\ "exit" \in Reasons
      BY DEF Phases, Reasons
    <3> QED BY <1>1, <2>1, <3>1, <3>2 DEF ServerTypeOK
  <2>3. CASE RuntimeOpens(s)
    <3>1. /\ phase' = [phase EXCEPT ![s] = "serving"] /\ once' = once \cup {s}
          /\ UNCHANGED <<todo, stop, owned, held, noted>>
      BY <2>3 DEF RuntimeOpens, Becomes
    <3>2. "serving" \in Phases
      BY DEF Phases
    <3> QED BY <1>1, <2>1, <3>1, <3>2 DEF ServerTypeOK
  <2>4. ASSUME NEW reason \in {"eof", "exit"}, BeginShutdown(s, reason) PROVE ServerTypeOK'
    <3>1. /\ phase' = [phase EXCEPT ![s] = "finalizing"] /\ stop' = [stop EXCEPT ![s] = reason]
          /\ UNCHANGED <<todo, once, owned, held, noted>>
      BY <2>4 DEF BeginShutdown, Becomes
    <3>2. "finalizing" \in Phases /\ reason \in Reasons
      BY DEF Phases, Reasons
    <3> QED BY <1>1, <2>1, <3>1, <3>2 DEF ServerTypeOK
  <2>5. CASE ReleaseTimesOut(s)
    BY <1>1, <2>1, <2>5 DEF ServerTypeOK, ReleaseTimesOut, Becomes, Phases
  <2>6. CASE Expire(s)
    BY <1>1, <2>6 DEF ServerTypeOK, Expire, serverVars
  <2> QED BY <2>2, <2>3, <2>4, <2>5, <2>6
<1>3. /\ UNCHANGED storeVars /\ pids' = pids /\ faults' = faults
      /\ expired \subseteq expired' /\ expired' \subseteq Servers
  BY <1>1 DEF TypeOK, StartupThrows, RuntimeOpens, BeginShutdown, ReleaseTimesOut, Expire, leaseVars
<1>4. ASSUME NEW t \in Servers PROVE ServerInv(t)'
  <2>1. ServerInv(t) /\ ServerInv(s)
    BY DEF StoreInv
  <2>2. UNCHANGED <<leases, calls>>
    BY <1>3 DEF storeVars
  <2>3. CASE StartupThrows(s)
    BY <1>1, <2>1, <2>2, <2>3 DEF StartupThrows, ServerInv, ServerTypeOK, Becomes
  <2>4. CASE RuntimeOpens(s)
    BY <1>1, <2>1, <2>2, <2>4 DEF RuntimeOpens, ServerInv, ServerTypeOK, Becomes
  <2>5. CASE \E reason \in {"eof", "exit"} : BeginShutdown(s, reason)
    BY <1>1, <2>1, <2>2, <2>5 DEF BeginShutdown, ServerInv, ServerTypeOK, Becomes
  <2>6. CASE ReleaseTimesOut(s)
    BY <1>1, <2>1, <2>2, <2>6 DEF ReleaseTimesOut, ServerInv, ServerTypeOK, Becomes
  <2>7. CASE Expire(s)
    BY <2>1, <2>2, <2>7 DEF Expire, ServerInv, serverVars
  <2> QED BY <2>3, <2>4, <2>5, <2>6, <2>7
<1> QED BY <1>1, <1>2, <1>3, <1>4, ServerMoves DEF TypeOK, storeVars, RecordStep

LEMMA FaultKeeps ==
  ASSUME StoreInv, NEW s \in Servers, Fault(s)
  PROVE  StoreInv' /\ RecordStep
<1>1. ServerTypeOK /\ TypeOK
  BY DEF StoreInv, AllTypeOK
<1>2. faults' \in 0..MaxFaults
  BY <1>1, BoundsAssumption DEF Fault, TypeOK
<1>3. CASE StoreFails(s) /\ UNCHANGED <<expired, pids, serverVars>>
  BY <1>2, <1>3, StoreFailsKeeps
<1>4. CASE LeaseUnread(s)
  <2>1. /\ UNCHANGED <<storeVars, expired, pids, phase, stop, once, owned, held, noted>>
        /\ todo' \in [Servers -> SUBSET Servers]
    <3>1. PICK l \in todo[s] : todo' = [todo EXCEPT ![s] = todo[s] \ {l}]
      BY <1>4 DEF LeaseUnread
    <3>2. todo[s] \ {l} \in SUBSET Servers
      BY <1>1 DEF ServerTypeOK
    <3> QED BY <1>1, <1>4, <3>1, <3>2 DEF LeaseUnread, ServerTypeOK
  <2>2. ServerTypeOK' /\ \A t \in Servers : ServerInv(t)'
    BY <1>1, <2>1 DEF ServerTypeOK, StoreInv, ServerInv, storeVars
  <2> QED BY <1>1, <1>2, <2>1, <2>2, ServerMoves DEF storeVars, TypeOK, RecordStep
<1>5. CASE AcquireThrows(s)
  BY <1>2, <1>5, AcquireThrowsKeeps
<1> QED BY <1>3, <1>4, <1>5 DEF Fault

\* The steps with which a server begins a call.
LEMMA BeginSteps ==
  ASSUME StoreInv, NEW s \in Servers,
         ReconcileNext(s) \/ RuntimeDoesNotOpen(s) \/ closeLifecycle(s) \/ HandOff(s)
  PROVE  StoreInv' /\ RecordStep
<1> USE DEF RecordStep
<1>1. ServerTypeOK /\ TypeOK /\ ServerInv(s)
  BY DEF StoreInv, AllTypeOK
<1>2. \A l \in Servers : leases[l].token \in Nat /\ leases[l].version \in Nat
  BY <1>1 DEF TypeOK, Lease
<1>3. CASE ReconcileNext(s)
  <2>1. PICK l \in todo[s] :
          /\ todo' = [todo EXCEPT ![s] = @ \ {l}]
          /\ IF leases[l].status = "open"
             THEN Begin(s, "reap", l, leases[l].token, 0)
             ELSE calls[s] = Idle /\ UNCHANGED storeVars
    BY <1>3 DEF ReconcileNext
  <2>2. l \in Servers /\ phase[s] = "reconcile"
        /\ UNCHANGED <<expired, pids, faults, phase, stop, once, owned, held, noted>>
    BY <1>1, <1>3 DEF ServerTypeOK, ReconcileNext
  <2>3. ServerTypeOK'
    BY <1>1, <2>1, <2>2 DEF ServerTypeOK
  <2>4. CASE leases[l].status = "open"
    <3>1. Begin(s, "reap", l, leases[l].token, 0)
      BY <2>1, <2>4
    <3>2. /\ TypeOK' /\ ReapedInv' /\ SignalsOnlyTheOwner' /\ leases' = leases
          /\ (\A k \in Servers : LeaseInv(k)') /\ \A t \in Servers : CallInv(t)'
          /\ \A t \in Servers \ {s} : calls'[t] = calls[t]
      BY <1>2, <2>2, <2>4, <3>1, BeginKeeps DEF Begin
    <3>3. ASSUME NEW t \in Servers PROVE ServerInv(t)'
      <4>1. ServerInv(t)
        BY DEF StoreInv
      <4>2. CASE t = s
        BY <1>1, <2>2, <3>2, <4>1, <4>2 DEF ServerInv
      <4>3. CASE t # s
        BY <2>2, <3>2, <4>1, <4>3 DEF ServerInv
      <4> QED BY <4>2, <4>3
    <3> QED BY <2>3, <3>2, <3>3 DEF StoreInv, AllTypeOK
  <2>5. CASE leases[l].status # "open"
    <3>1. UNCHANGED storeVars
      BY <2>1, <2>5
    <3>2. \A t \in Servers : ServerInv(t)'
      BY <2>2, <3>1 DEF StoreInv, ServerInv, storeVars
    <3> QED BY <1>1, <2>2, <2>3, <3>1, <3>2, ServerMoves DEF storeVars, TypeOK
  <2> QED BY <2>4, <2>5
<1>4. CASE RuntimeDoesNotOpen(s) \/ closeLifecycle(s)
  <2>1. /\ s \in owned /\ leases[s].status # "none" /\ releaseActiveLease(s)
        /\ UNCHANGED <<expired, pids, faults, noted>> /\ phase' = [phase EXCEPT ![s] = "releasing"]
    BY <1>1, <1>4 DEF ServerInv, RuntimeDoesNotOpen, closeLifecycle, Becomes
  <2>2. Begin(s, "release", s, 1, 1) /\ owned' = owned \ {s} /\ held' = held
    BY <2>1 DEF releaseActiveLease, Abstract!Granted
  <2>3. /\ TypeOK' /\ ReapedInv' /\ SignalsOnlyTheOwner' /\ leases' = leases
        /\ (\A k \in Servers : LeaseInv(k)') /\ \A t \in Servers : CallInv(t)'
        /\ calls'[s].op = "release" /\ calls'[s].of = s /\ calls'[s].at = "lock"
        /\ \A t \in Servers \ {s} : calls'[t] = calls[t]
    BY <2>1, <2>2, BeginKeeps DEF Begin
  <2>4. ServerTypeOK'
    BY <1>1, <1>4, <2>2
       DEF ServerTypeOK, RuntimeDoesNotOpen, closeLifecycle, Becomes, Phases, Reasons
  <2>5. ASSUME NEW t \in Servers PROVE ServerInv(t)'
    <3>1. ServerInv(t)
      BY DEF StoreInv
    <3> QED BY <1>1, <2>1, <2>2, <2>3, <3>1 DEF ServerInv, ServerTypeOK
  <2> QED BY <2>3, <2>4, <2>5 DEF StoreInv, AllTypeOK
<1>5. CASE HandOff(s)
  <2>1. leases[s].status # "none" /\ UNCHANGED serverVars /\ phase[s] = "serving"
    BY <1>1, <1>5 DEF ServerInv, HandOff
  <2>2. /\ TypeOK' /\ ReapedInv' /\ SignalsOnlyTheOwner' /\ leases' = leases
        /\ (\A k \in Servers : LeaseInv(k)') /\ \A t \in Servers : CallInv(t)'
        /\ \A t \in Servers \ {s} : calls'[t] = calls[t]
    BY <1>2, <1>5, <2>1, BeginKeeps DEF HandOff, Begin
  <2>3. ServerTypeOK'
    BY <1>1, <2>1 DEF ServerTypeOK, serverVars
  <2>4. ASSUME NEW t \in Servers PROVE ServerInv(t)'
    <3>1. ServerInv(t)
      BY DEF StoreInv
    <3>2. CASE t = s
      BY <2>1, <2>2, <3>1, <3>2 DEF ServerInv, serverVars
    <3>3. CASE t # s
      BY <2>1, <2>2, <3>1, <3>3 DEF ServerInv, serverVars
    <3> QED BY <3>2, <3>3
  <2> QED BY <2>2, <2>3, <2>4 DEF StoreInv, AllTypeOK
<1> QED BY <1>3, <1>4, <1>5

\* The steps with which a server takes the answer of a call.
LEMMA AnswerSteps ==
  ASSUME StoreInv, NEW s \in Servers, HandOffReturns(s) \/ ReleaseSettles(s)
  PROVE  StoreInv' /\ RecordStep
<1> USE DEF RecordStep
<1>1. ServerTypeOK /\ TypeOK /\ ServerInv(s) /\ CallInv(s)
  BY DEF StoreInv, AllTypeOK
<1>2. Return(s) /\ UNCHANGED <<expired, pids, faults>> /\ leases' = leases
  BY DEF HandOffReturns, ReleaseSettles, Return
<1>3. /\ TypeOK' /\ ReapedInv' /\ SignalsOnlyTheOwner'
      /\ (\A k \in Servers : LeaseInv(k)') /\ \A t \in Servers : CallInv(t)'
      /\ \A t \in Servers \ {s} : calls'[t] = calls[t]
  BY <1>2, ReturnKeeps
<1>4. CASE HandOffReturns(s)
  <2>1. UNCHANGED serverVars /\ phase[s] # "releasing"
    BY <1>1, <1>4 DEF HandOffReturns, ServerInv
  <2>2. ServerTypeOK'
    BY <1>1, <2>1 DEF ServerTypeOK, serverVars
  <2>3. ASSUME NEW t \in Servers PROVE ServerInv(t)'
    <3>1. ServerInv(t)
      BY DEF StoreInv
    <3>2. CASE t = s
      BY <1>2, <2>1, <3>1, <3>2 DEF ServerInv, serverVars
    <3>3. CASE t # s
      BY <1>2, <1>3, <2>1, <3>1, <3>3 DEF ServerInv, serverVars
    <3> QED BY <3>2, <3>3
  <2> QED BY <1>2, <1>3, <2>2, <2>3 DEF StoreInv, AllTypeOK
<1>5. CASE ReleaseSettles(s)
  <2>1. /\ phase[s] = "releasing" /\ calls[s].at = "done"
        /\ phase' = [phase EXCEPT ![s] = "closing"]
        /\ noted' = [noted EXCEPT ![s] = IF calls[s].result \in {"released", "closed"}
                                         THEN "" ELSE "LEASE_RELEASE_FAILED"]
        /\ UNCHANGED <<todo, stop, once, owned, held>>
    BY <1>5 DEF ReleaseSettles, Becomes
  <2>2. ServerTypeOK'
    BY <1>1, <2>1 DEF ServerTypeOK, Phases
  <2>3. calls[s].op = "release" /\ calls[s].of = s
    BY <1>1, <2>1 DEF ServerInv
  <2>4. noted'[s] = "" => leases[s].status = "closed"
    BY <1>1, <2>1, <2>3 DEF CallInv, Freed, ServerTypeOK
  <2>5. phase'[s] = "closing" /\ s \in Servers
    BY <1>1, <2>1 DEF ServerTypeOK
  <2>6. ASSUME NEW t \in Servers PROVE ServerInv(t)'
    <3>1. ServerInv(t)
      BY DEF StoreInv
    <3>2. CASE t = s
      BY <1>1, <1>2, <2>1, <2>4, <2>5, <3>1, <3>2 DEF ServerInv
    <3>3. CASE t # s
      BY <1>1, <1>2, <1>3, <2>1, <3>1, <3>3 DEF ServerInv, ServerTypeOK
    <3> QED BY <3>2, <3>3
  <2> QED BY <1>2, <1>3, <2>2, <2>6 DEF StoreInv, AllTypeOK
<1> QED BY <1>4, <1>5

\* The steps that end a process, or would.
LEMMA EndSteps ==
  ASSUME StoreInv, NEW s \in Servers,
         DeliverTerm(s) \/ CloseServer(s) \/ Drain(s) \/ ExitAfterSignal(s) \/ Crash(s)
  PROVE  StoreInv' /\ RecordStep
<1> USE DEF RecordStep
<1>1. ServerTypeOK /\ TypeOK /\ ServerInv(s)
  BY DEF StoreInv, AllTypeOK
<1>2. UNCHANGED <<expired, pids, faults>>
  BY DEF DeliverTerm, CloseServer, Drain, ExitAfterSignal, Crash
<1>3. CASE Crash(s) \/ Drain(s) \/ ExitAfterSignal(s)
  <2>1. \E p \in {"exited", "crashed"} :
          Die(s) /\ Ends(s, p) /\ (p = "exited" => phase[s] = "drained")
    BY <1>3 DEF Crash, Drain, ExitAfterSignal
  <2> QED BY <1>1, <1>2, <2>1, DieKeeps DEF Die, ServerInv
<1>4. CASE CloseServer(s)
  <2>1. CASE stop[s] = "eof"
    <3>1. /\ UNCHANGED <<storeVars, todo, stop, once, owned, held, noted>> /\ phase[s] = "closing"
          /\ phase' = [phase EXCEPT ![s] = "drained"]
      BY <1>4, <2>1 DEF CloseServer, Becomes
    <3>2. ServerTypeOK'
      BY <1>1, <3>1 DEF ServerTypeOK, Phases
    <3>3. ASSUME NEW t \in Servers PROVE ServerInv(t)'
      <4>1. ServerInv(t)
        BY DEF StoreInv
      <4> QED BY <1>1, <3>1, <4>1 DEF ServerInv, ServerTypeOK, storeVars
    <3>4. expired \subseteq Servers
      BY <1>1 DEF TypeOK
    <3> QED BY <1>1, <1>2, <3>1, <3>2, <3>3, <3>4, ServerMoves DEF storeVars, TypeOK
  <2>2. CASE stop[s] # "eof"
    BY <1>1, <1>2, <1>4, <2>2, DieKeeps DEF CloseServer, Die, ServerInv
  <2> QED BY <2>1, <2>2
<1>5. CASE DeliverTerm(s)
  <2>1. CASE s \in once
    <3>1. /\ UNCHANGED <<leases, locks, calls, alive, signals, reaped, blind, todo, owned, held, noted>>
          /\ once' = once \ {s} /\ sigterms' = sigterms \ {s}
          /\ stop' = [stop EXCEPT ![s] = "exit"]
          /\ phase' = [phase EXCEPT ![s] = IF phase[s] = "serving" THEN "finalizing"
                                           ELSE phase[s]]
      BY <1>5, <2>1 DEF DeliverTerm, Becomes
    <3>2. ServerTypeOK'
      BY <1>1, <3>1 DEF ServerTypeOK, Phases, Reasons
    <3>3. ASSUME NEW t \in Servers PROVE ServerInv(t)'
      <4>1. ServerInv(t)
        BY DEF StoreInv
      <4>2. CASE t = s
        BY <1>1, <3>1, <4>1, <4>2 DEF ServerInv, ServerTypeOK
      <4>3. CASE t # s
        BY <1>1, <3>1, <4>1, <4>3 DEF ServerInv, ServerTypeOK
      <4> QED BY <4>2, <4>3
    <3>4. expired \subseteq Servers
      BY <1>1 DEF TypeOK
    <3> QED BY <1>1, <1>2, <3>1, <3>2, <3>3, <3>4, ServerMoves DEF TypeOK
  <2>2. CASE s \notin once
    BY <1>2, <1>5, <2>2, DieKeeps DEF DeliverTerm, Die
  <2> QED BY <2>1, <2>2
<1> QED BY <1>3, <1>4, <1>5

LEMMA NextKeeps == StoreInv /\ [Next]_vars => StoreInv' /\ RecordStep
<1> SUFFICES ASSUME StoreInv, [Next]_vars PROVE StoreInv' /\ RecordStep
  OBVIOUS
<1>1. ASSUME NEW s \in Servers, Program(s) PROVE StoreInv' /\ RecordStep
  BY <1>1, BeginSteps, AnswerSteps, PhaseSteps, EndSteps, CallStepKeeps, Zenon DEF Program
<1>2. ASSUME NEW s \in Servers, Environment(s) PROVE StoreInv' /\ RecordStep
  <2>1. Start(s) => StoreInv' /\ RecordStep
    BY StartKeeps DEF Start, RecordStep
  <2> QED BY <1>2, <2>1, BeginSteps, AcquireLeaseKeeps, PhaseSteps, EndSteps, PsAnswersKeeps,
         FaultKeeps, Zenon DEF Environment
<1>3. CASE UNCHANGED vars
  <2>1. UNCHANGED <<storeVars, expired, pids, faults, serverVars>>
    BY <1>3 DEF vars, leaseVars
  <2>2. AllTypeOK' /\ ReapedInv' /\ SignalsOnlyTheOwner' /\ \A l \in Servers : LeaseInv(l)'
    BY <2>1 DEF storeVars, serverVars, StoreInv, AllTypeOK, TypeOK, ServerTypeOK, ReapedInv,
       SignalsOnlyTheOwner, LeaseInv
  <2>3. ASSUME NEW t \in Servers PROVE CallInv(t)' /\ ServerInv(t)'
    <3>1. CallInv(t) /\ ServerInv(t)
      BY DEF StoreInv
    <3> QED BY <2>1, <3>1 DEF storeVars, serverVars, ServerInv, CallInv, Granted, Locked,
       Alone, Current, Overdue, Dead, Freed, Holds, Knows, Closing
  <2> QED BY <2>1, <2>2, <2>3 DEF StoreInv, RecordStep, storeVars
<1> QED BY <1>1, <1>2, <1>3 DEF Next

-----------------------------------------------------------------------------
\* The invariant holds of every run, whatever is done fairly or not at all.
THEOREM SafeStore == Safe => []StoreInv
BY InvInit, NextKeeps, PTL DEF Safe

\* Every variable stays within its type: no count of failed looks beyond its
\* bound, no call in a step that the store does not have.
THEOREM SpecTypeOK == Spec => []AllTypeOK
<1>1. StoreInv => AllTypeOK
  BY DEF StoreInv
<1> QED BY <1>1, SafeStore, PTL DEF Spec

\* A call under a lease's lock file is the only one there, and what it read of the
\* lease is what the file says until it writes (withLeaseLock).
THEOREM SpecLockOwned == Spec => []LockOwned
<1>1. StoreInv => LockOwned
  BY DEF StoreInv, CallInv, LockOwned, Locked, Alone, Current, Holds, Knows
<1> QED BY <1>1, SafeStore, PTL DEF Spec

\* Only the process a lease names is ever signalled, and only after the lease's
\* expiry and under the lease's own token (reap, targetGone, terminate).
THEOREM SpecSignalsOnlyTheOwner == Spec => []SignalsOnlyTheOwner
<1>1. StoreInv => SignalsOnlyTheOwner
  BY DEF StoreInv
<1> QED BY <1>1, SafeStore, PTL DEF Spec

\* As long as every look finds whoever is there, a process whose lease a reap
\* closed is dead and stays so.
THEOREM SpecReapedIsDead == Spec => []ReapedIsDead
<1>1. StoreInv => ReapedIsDead
  BY DEF StoreInv, ReapedInv, ReapedIsDead, AllTypeOK, TypeOK
<1> QED BY <1>1, SafeStore, PTL DEF Spec

\* A server that has had a lease and ends by itself has closed it or reports that
\* it could not, whichever file operation fails; one whose acquire failed has had
\* none (releaseActiveLease, performClose).
THEOREM SpecNoSilentLeak == Spec => []NoSilentLeak
<1>1. StoreInv => NoSilentLeak
  BY DEF StoreInv, AllTypeOK, ServerTypeOK, ServerInv, NoSilentLeak
<1> QED BY <1>1, SafeStore, PTL DEF Spec

\* The lease files of the detailed store, under its locks, races, crashes and
\* failed looks, are the versioned record of LeaseRecord: a step of any process
\* grants, hands over or closes one lease, or leaves all of them as they are.
THEOREM SpecImplementsRecord == Spec => ImplementsRecord
<1>1. Init => Abstract!Init
  BY DEF Init, LeaseInit, Abstract!Init
<1>2. StoreInv /\ [Next]_vars => [Abstract!Next]_leases
  BY NextKeeps DEF RecordStep
<1> QED BY <1>1, <1>2, SafeStore, PTL DEF Spec, Safe, ImplementsRecord, Abstract!Spec
=============================================================================
