-------------------------- MODULE TerminalSessions --------------------------
(***************************************************************************)
(* Terminal sessions of the GroundControl server: every WebSocket of an    *)
(* administrator can hold one shell on a host.  The handlers of one socket *)
(* interleave at their awaits: a "terminal:start" that is still opening a  *)
(* shell, a closeSession that waits for a shell to end, the idle timer,    *)
(* the access check and the disconnect all share the same few variables.   *)
(*                                                                         *)
(* A client sends "terminal:start" again only after the acknowledgement of *)
(* the previous one; a patient client also lets a close of its session run *)
(* out.  The terminal page sends one start per connection and reconnects   *)
(* with a new socket, so it is patient.                                    *)
(***************************************************************************)
EXTENDS Naturals, FiniteSets

CONSTANTS
  Socket,       (* connections; a reconnecting client is a new one         *)
  User,         (* administrators                                          *)
  UserOf,       (* the user a socket authenticated as                      *)
  None,         (* no shell                                                *)
  MaxSessions,  (* MAX_SESSIONS_PER_USER, 4 in the code                    *)
  MaxStarts,    (* bound on the "terminal:start" events of one socket      *)
  Patient       (* TRUE: no start while a close of the session is running  *)

\* A start event opens at most one shell.
Shell == Socket \X (1..MaxStarts)

ASSUME TerminalAssumption ==
  /\ IsFiniteSet(Socket)
  /\ UserOf \in [Socket -> User]
  /\ None \notin Shell
  /\ MaxSessions \in Nat \ {0}
  /\ MaxStarts \in Nat
  /\ Patient \in BOOLEAN

VARIABLES
  connected,    (* the connection is "new", "open" or "gone"               *)
  backend,      (* the socket's shell                                      *)
  counted,      (* sessionCounted                                          *)
  targeted,     (* socket.data.vpsId is set, so closing writes an audit row *)
  idle, access, (* the idle timer and the access check are armed           *)
  start,        (* how far the socket's terminal:start handler is          *)
  starts,       (* start events so far                                     *)
  closer,       (* the closeSession in progress ("closing"), and its shell *)
  count,        (* activeSessionsByUser                                    *)
  live,         (* shells running on a host                                *)
  abandoned     (* shells whose ending was tried, and failed               *)

sessionVars == <<backend, counted, targeted, idle, access>>
vars == <<connected, sessionVars, start, starts, closer, count, live, abandoned>>

StartPc == {"none", "closing", "authenticating", "opening", "resizing", "auditing"}
Closer == [pc : {"none", "shell", "audit"}, shell : Shell \cup {None}]
NotClosing == [pc |-> "none", shell |-> None]

TypeOK ==
  /\ connected \in [Socket -> {"new", "open", "gone"}]
  /\ backend \in [Socket -> Shell \cup {None}]
  /\ counted \in [Socket -> BOOLEAN]
  /\ targeted \in [Socket -> BOOLEAN]
  /\ idle \in [Socket -> BOOLEAN]
  /\ access \in [Socket -> BOOLEAN]
  /\ start \in [Socket -> StartPc]
  /\ starts \in [Socket -> 0..MaxStarts]
  /\ closer \in [Socket -> Closer]
  /\ count \in [User -> 0..MaxSessions]
  /\ live \in SUBSET Shell
  /\ abandoned \in SUBSET Shell

Init ==
  /\ connected = [s \in Socket |-> "new"]
  /\ backend = [s \in Socket |-> None]
  /\ counted = [s \in Socket |-> FALSE]
  /\ targeted = [s \in Socket |-> FALSE]
  /\ idle = [s \in Socket |-> FALSE]
  /\ access = [s \in Socket |-> FALSE]
  /\ start = [s \in Socket |-> "none"]
  /\ starts = [s \in Socket |-> 0]
  /\ closer = [s \in Socket |-> NotClosing]
  /\ count = [u \in User |-> 0]
  /\ live = {}
  /\ abandoned = {}

-----------------------------------------------------------------------------
(* decrementSessions, which never goes below zero, behind the check of     *)
(* sessionCounted that all its callers make.                               *)
Uncount(s) ==
  /\ counted' = [counted EXCEPT ![s] = FALSE]
  /\ count' = IF counted[s] /\ count[UserOf[s]] > 0
              THEN [count EXCEPT ![UserOf[s]] = @ - 1] ELSE count

KeepCount == UNCHANGED <<counted, count>>

\* The synchronous part of closeSession.  A second call while one is waiting
\* does nothing.
BeginClose(s) ==
  IF closer[s].pc # "none"
  THEN UNCHANGED <<sessionVars, closer, count>>
  ELSE /\ idle' = [idle EXCEPT ![s] = FALSE]
       /\ access' = [access EXCEPT ![s] = FALSE]
       /\ backend' = [backend EXCEPT ![s] = None]
       /\ IF backend[s] # None
          THEN /\ closer' = [closer EXCEPT ![s] = [pc |-> "shell", shell |-> backend[s]]]
               /\ KeepCount
          ELSE /\ closer' = IF targeted[s] THEN [closer EXCEPT ![s].pc = "audit"] ELSE closer
               /\ Uncount(s)
       /\ UNCHANGED targeted

\* The shell ended, or ending it failed: the backend swallows the failure of
\* "docker rm -f" or its timeout and closes only once, so nobody tries again.
\* closeSession goes on either way, and only now gives the session back.
ShellClosed(s) ==
  /\ closer[s].pc = "shell"
  /\ \/ /\ live' = live \ {closer[s].shell}
        /\ UNCHANGED abandoned
     \/ /\ closer[s].shell \in live
        /\ abandoned' = abandoned \cup {closer[s].shell}
        /\ UNCHANGED live
  /\ closer' = [closer EXCEPT ![s] = [pc |-> "audit", shell |-> None]]
  /\ Uncount(s)
  /\ UNCHANGED <<connected, backend, targeted, idle, access, start, starts>>

\* The audit row is written; a start that waited for this close goes on.
CloseDone(s) ==
  /\ closer[s].pc = "audit"
  /\ closer' = [closer EXCEPT ![s] = NotClosing]
  /\ start' = IF start[s] = "closing" THEN [start EXCEPT ![s] = "authenticating"] ELSE start
  /\ UNCHANGED <<connected, sessionVars, starts, count, live, abandoned>>

-----------------------------------------------------------------------------
(* Events.                                                                 *)

Connect(s) ==
  /\ connected[s] = "new"
  /\ connected' = [connected EXCEPT ![s] = "open"]
  /\ UNCHANGED <<sessionVars, start, starts, closer, count, live, abandoned>>

\* terminal:start first closes the previous session, and waits for that unless
\* another closeSession is already under way.
Start(s) ==
  /\ connected[s] = "open"
  /\ start[s] = "none" /\ starts[s] < MaxStarts
  /\ Patient => closer[s].pc = "none"
  /\ starts' = [starts EXCEPT ![s] = @ + 1]
  /\ BeginClose(s)
  /\ start' = [start EXCEPT ![s] =
                 IF closer[s].pc = "none" /\ closer'[s].pc # "none"
                 THEN "closing" ELSE "authenticating"]
  /\ UNCHANGED <<connected, live, abandoned>>

\* Mutant of StartThrows: the session is given back even if it was not counted.
StartThrowsUncounting(s) ==
  /\ start[s] \in {"authenticating", "opening"}
  /\ start' = [start EXCEPT ![s] = "none"]
  /\ counted' = [counted EXCEPT ![s] = FALSE]
  /\ count' = IF count[UserOf[s]] > 0 THEN [count EXCEPT ![UserOf[s]] = @ - 1] ELSE count
  /\ UNCHANGED <<connected, backend, targeted, idle, access, starts, closer, live, abandoned>>

\* The user is no administrator any more, the target does not exist, the limit
\* is reached, or the shell cannot be opened: the handler's catch.
StartThrows(s) ==
  /\ start[s] \in {"authenticating", "opening"}
  /\ start' = [start EXCEPT ![s] = "none"]
  /\ IF backend[s] = None THEN Uncount(s) ELSE KeepCount
  /\ UNCHANGED <<connected, backend, targeted, idle, access, starts, closer, live, abandoned>>

\* Mutant of Admit: the limit is not looked at.
AdmitUnlimited(s) ==
  /\ start[s] = "authenticating"
  /\ count' = [count EXCEPT ![UserOf[s]] = @ + 1]
  /\ counted' = [counted EXCEPT ![s] = TRUE]
  /\ targeted' = [targeted EXCEPT ![s] = TRUE]
  /\ start' = [start EXCEPT ![s] = "opening"]
  /\ UNCHANGED <<connected, backend, idle, access, starts, closer, live, abandoned>>

\* incrementSessions, and everything up to the await of the shell.
Admit(s) ==
  /\ start[s] = "authenticating"
  /\ count[UserOf[s]] < MaxSessions
  /\ count' = [count EXCEPT ![UserOf[s]] = @ + 1]
  /\ counted' = [counted EXCEPT ![s] = TRUE]
  /\ targeted' = [targeted EXCEPT ![s] = TRUE]
  /\ start' = [start EXCEPT ![s] = "opening"]
  /\ UNCHANGED <<connected, backend, idle, access, starts, closer, live, abandoned>>

\* Mutant of Opened: a shell for a client that is gone is not remembered.
OpenedUnlessGone(s) ==
  /\ start[s] = "opening"
  /\ backend' = IF connected[s] = "gone" THEN backend
                ELSE [backend EXCEPT ![s] = <<s, starts[s]>>]
  /\ live' = live \cup {<<s, starts[s]>>}
  /\ start' = [start EXCEPT ![s] = "resizing"]
  /\ UNCHANGED <<connected, counted, targeted, idle, access, starts, closer, count, abandoned>>

\* The shell runs.  Nothing looks whether the socket is still there, or whether
\* the session was closed meanwhile.
Opened(s) ==
  /\ start[s] = "opening"
  /\ backend' = [backend EXCEPT ![s] = <<s, starts[s]>>]
  /\ live' = live \cup {<<s, starts[s]>>}
  /\ start' = [start EXCEPT ![s] = "resizing"]
  /\ UNCHANGED <<connected, counted, targeted, idle, access, starts, closer, count, abandoned>>

\* Mutant of Resized: the idle timer waits for the first input.
ResizedUntimed(s) ==
  /\ start[s] = "resizing"
  /\ access' = [access EXCEPT ![s] = TRUE]
  /\ start' = [start EXCEPT ![s] = "auditing"]
  /\ UNCHANGED <<connected, backend, counted, targeted, idle, starts, closer, count, live, abandoned>>

\* The first resize is done: both timers are armed, then the audit row is
\* written and the start acknowledged.
Resized(s) ==
  /\ start[s] = "resizing"
  /\ idle' = [idle EXCEPT ![s] = TRUE]
  /\ access' = [access EXCEPT ![s] = TRUE]
  /\ start' = [start EXCEPT ![s] = "auditing"]
  /\ UNCHANGED <<connected, backend, counted, targeted, starts, closer, count, live, abandoned>>

Ready(s) ==
  /\ start[s] = "auditing"
  /\ start' = [start EXCEPT ![s] = "none"]
  /\ UNCHANGED <<connected, sessionVars, starts, closer, count, live, abandoned>>

\* terminal:input with a shell restarts the idle timer.
Input(s) ==
  /\ connected[s] = "open" /\ backend[s] # None
  /\ idle' = [idle EXCEPT ![s] = TRUE]
  /\ UNCHANGED <<connected, backend, counted, targeted, access, start, starts, closer,
                 count, live, abandoned>>

ClientCloses(s) ==
  /\ connected[s] = "open"
  /\ BeginClose(s)
  /\ UNCHANGED <<connected, start, starts, live, abandoned>>

Disconnect(s) ==
  /\ connected[s] = "open"
  /\ connected' = [connected EXCEPT ![s] = "gone"]
  /\ BeginClose(s)
  /\ UNCHANGED <<start, starts, live, abandoned>>

\* Thirty minutes without input.  A closeSession in progress is over by then:
\* its waits are bounded by seconds.
IdleFires(s) ==
  /\ idle[s] /\ closer[s].pc = "none"
  /\ BeginClose(s)
  /\ UNCHANGED <<connected, start, starts, live, abandoned>>

\* The user of an armed access check lost the role, or the check failed.
AccessLost(s) ==
  /\ access[s]
  /\ BeginClose(s)
  /\ UNCHANGED <<connected, start, starts, live, abandoned>>

\* The shell ends by itself; the client is told, the session stays.
ShellExits(h) ==
  /\ h \in live
  /\ live' = live \ {h}
  /\ UNCHANGED <<connected, sessionVars, start, starts, closer, count, abandoned>>

\* Handlers that run on without any event.
Proceed(s) ==
  \/ StartThrows(s)
  \/ Admit(s)
  \/ Opened(s)
  \/ Resized(s)
  \/ Ready(s)
  \/ ShellClosed(s)
  \/ CloseDone(s)

Next ==
  \/ \E s \in Socket :
       \/ Connect(s)
       \/ Start(s)
       \/ Input(s)
       \/ ClientCloses(s)
       \/ Disconnect(s)
       \/ IdleFires(s)
       \/ AccessLost(s)
       \/ Proceed(s)
  \/ \E h \in Shell : ShellExits(h)

Spec == Init /\ [][Next]_vars

\* Handlers run on, and an idle timer nobody restarts fires.
Fairness ==
  \A s \in Socket : WF_vars(Proceed(s)) /\ WF_vars(IdleFires(s))

FairSpec == Spec /\ Fairness

-----------------------------------------------------------------------------
(* Properties.                                                             *)

\* The table of sessions per user neither leaks nor loses one: it is the number
\* of sockets that believe to be counted, whichever handlers overlapped.
CountIsExact ==
  \A u \in User :
    count[u] = Cardinality({s \in Socket : UserOf[s] = u /\ counted[s]})

\* A running shell that nobody can end any more is one whose ending failed:
\* overlapping handlers lose none.  Every other one is its socket's backend, or
\* the closeSession that took it from there still waits for its end.
OnlyFailedClosesLoseShells ==
  \A h \in live :
    backend[h[1]] = h \/ closer[h[1]].shell = h \/ h \in abandoned

\* A shell that was still opening when its client left is not forgotten: the
\* idle timer armed afterwards ends it, or its ending is at least tried.
ShellsOfGoneClientsAreClosed ==
  \A h \in Shell :
    connected[h[1]] = "gone" /\ h \in live ~> h \notin live \/ h \in abandoned

=============================================================================
