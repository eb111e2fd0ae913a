----------------------- MODULE TerminalSessionsProofs -----------------------
(***************************************************************************)
(* The table of terminal sessions is exact, only a failed close loses a    *)
(* shell and those of clients that are gone are closed, for any number of  *)
(* sockets, users and starts.                                              *)
(***************************************************************************)
EXTENDS TerminalSessions, FiniteSetTheorems, TLAPS

Opening == {"closing", "authenticating", "opening"}

\* A start in progress has been counted as one.
StartsCounted == \A s \in Socket : start[s] # "none" => starts[s] > 0

\* What the interleaved handlers of one socket may rely on: a start holds no
\* shell before it has opened its own, and is not counted before it is admitted.
HandlersAgree ==
  \A s \in Socket :
    /\ start[s] \in Opening => backend[s] = None
    /\ start[s] = "authenticating" => ~counted[s]
    /\ start[s] = "closing" /\ closer[s].pc = "audit" => ~counted[s]
    /\ closer[s].pc # "shell" => closer[s].shell = None

IInv == TypeOK /\ StartsCounted /\ HandlersAgree

CountedOf(u) == {s \in Socket : UserOf[s] = u /\ counted[s]}

-----------------------------------------------------------------------------
LEMMA InitInv == Init => IInv
<1> SUFFICES ASSUME Init PROVE IInv
  OBVIOUS
<1> USE TerminalAssumption
<1>1. TypeOK
  BY DEF Init, TypeOK, StartPc, Closer, NotClosing
<1>2. StartsCounted /\ HandlersAgree
  BY DEF Init, StartsCounted, HandlersAgree, NotClosing, Opening
<1> QED
  BY <1>1, <1>2 DEF IInv

\* The synchronous part of closeSession, by cases.
LEMMA BeginCloseCases ==
  ASSUME TypeOK, NEW s \in Socket, BeginClose(s)
  PROVE  \/ UNCHANGED <<sessionVars, closer, count>>
         \/ /\ closer[s].pc = "none"
            /\ idle' = [idle EXCEPT ![s] = FALSE]
            /\ access' = [access EXCEPT ![s] = FALSE]
            /\ backend' = [backend EXCEPT ![s] = None]
            /\ targeted' = targeted
            /\ \/ /\ backend[s] # None
                  /\ closer' = [closer EXCEPT ![s] = [pc |-> "shell", shell |-> backend[s]]]
                  /\ counted' = counted /\ count' = count
               \/ /\ backend[s] = None
                  /\ closer' = closer \/ closer' = [closer EXCEPT ![s].pc = "audit"]
                  /\ Uncount(s)
BY DEF BeginClose, KeepCount, sessionVars

\* Giving a session back keeps the types of the table.
LEMMA UncountType ==
  ASSUME TypeOK, NEW s \in Socket, Uncount(s)
  PROVE  /\ counted' = [counted EXCEPT ![s] = FALSE]
         /\ counted' \in [Socket -> BOOLEAN]
         /\ count' \in [User -> 0..MaxSessions]
<1>1. UserOf[s] \in User /\ count \in [User -> 0..MaxSessions] /\ counted \in [Socket -> BOOLEAN]
  BY TerminalAssumption DEF TypeOK
<1>2. MaxSessions \in Nat
  BY TerminalAssumption
<1> QED
  BY <1>1, <1>2 DEF Uncount

\* closeSession keeps the invariant of every other variable's type and of the
\* handlers, whatever handler it interrupts.
LEMMA BeginCloseType ==
  ASSUME TypeOK, NEW s \in Socket, BeginClose(s)
  PROVE  /\ backend' \in [Socket -> Shell \cup {None}]
         /\ counted' \in [Socket -> BOOLEAN]
         /\ targeted' \in [Socket -> BOOLEAN]
         /\ idle' \in [Socket -> BOOLEAN]
         /\ access' \in [Socket -> BOOLEAN]
         /\ closer' \in [Socket -> Closer]
         /\ count' \in [User -> 0..MaxSessions]
<1>1. CASE UNCHANGED <<sessionVars, closer, count>>
  BY <1>1 DEF TypeOK, sessionVars
<1>2. CASE /\ closer[s].pc = "none"
           /\ idle' = [idle EXCEPT ![s] = FALSE]
           /\ access' = [access EXCEPT ![s] = FALSE]
           /\ backend' = [backend EXCEPT ![s] = None]
           /\ targeted' = targeted
           /\ backend[s] # None
           /\ closer' = [closer EXCEPT ![s] = [pc |-> "shell", shell |-> backend[s]]]
           /\ counted' = counted /\ count' = count
  BY <1>2 DEF TypeOK, Closer
<1>3. CASE /\ closer[s].pc = "none"
           /\ idle' = [idle EXCEPT ![s] = FALSE]
           /\ access' = [access EXCEPT ![s] = FALSE]
           /\ backend' = [backend EXCEPT ![s] = None]
           /\ targeted' = targeted
           /\ closer' = closer \/ closer' = [closer EXCEPT ![s].pc = "audit"]
           /\ Uncount(s)
  <2>1. counted' \in [Socket -> BOOLEAN] /\ count' \in [User -> 0..MaxSessions]
    BY <1>3, UncountType
  <2>0. closer \in [Socket -> Closer] /\ closer[s] \in Closer
    BY DEF TypeOK
  <2>a. [closer[s] EXCEPT !.pc = "audit"] \in Closer
    BY <2>0 DEF Closer
  <2>2. closer' \in [Socket -> Closer]
    BY <1>3, <2>0, <2>a
  <2> QED
    BY <1>3, <2>1, <2>2 DEF TypeOK
<1> QED
  BY BeginCloseCases, <1>1, <1>2, <1>3

\* Which handlers' assumptions closeSession can disturb: none.
LEMMA BeginCloseAgrees ==
  ASSUME TypeOK, HandlersAgree, NEW s \in Socket, BeginClose(s)
  PROVE  /\ \A r \in Socket \ {s} :
               /\ backend'[r] = backend[r]
               /\ counted'[r] = counted[r]
               /\ closer'[r] = closer[r]
         /\ backend'[s] \in {backend[s], None}
         /\ counted'[s] => counted[s]
         /\ closer'[s].pc # "shell" => closer'[s].shell = None
         /\ closer'[s].pc = "audit" => closer[s].pc = "audit" \/ ~counted'[s]
         /\ closer[s].pc = "none" => backend'[s] = None
         /\ closer[s].pc = "none" /\ closer'[s].pc = "none" => ~counted'[s]
<1>0. /\ closer \in [Socket -> Closer] /\ counted \in [Socket -> BOOLEAN]
      /\ backend \in [Socket -> Shell \cup {None}]
  BY DEF TypeOK
<1>1. CASE UNCHANGED <<sessionVars, closer, count>> /\ closer[s].pc # "none"
  BY <1>0, <1>1 DEF HandlersAgree, sessionVars
<1>2. CASE /\ closer[s].pc = "none"
           /\ backend' = [backend EXCEPT ![s] = None]
           /\ closer' = [closer EXCEPT ![s] = [pc |-> "shell", shell |-> backend[s]]]
           /\ counted' = counted
  BY <1>0, <1>2
<1>3. CASE /\ closer[s].pc = "none"
           /\ backend' = [backend EXCEPT ![s] = None]
           /\ closer' = closer \/ closer' = [closer EXCEPT ![s].pc = "audit"]
           /\ counted' = [counted EXCEPT ![s] = FALSE]
  <2>1. closer[s].shell = None
    BY <1>3 DEF HandlersAgree
  <2>2. closer'[s].shell = None /\ \A r \in Socket \ {s} : closer'[r] = closer[r]
    BY <1>0, <1>3, <2>1 DEF Closer
  <2> QED
    BY <1>0, <1>3, <2>2
<1> QED
  BY <1>1, <1>2, <1>3 DEF BeginClose, KeepCount, Uncount, sessionVars

-----------------------------------------------------------------------------
\* Every step keeps the types.
LEMMA NextType == TypeOK /\ StartsCounted /\ [Next]_vars => TypeOK'
<1> SUFFICES ASSUME TypeOK, StartsCounted, [Next]_vars PROVE TypeOK'
  OBVIOUS
<1>0. MaxStarts \in Nat /\ MaxSessions \in Nat /\ UserOf \in [Socket -> User]
  BY TerminalAssumption
<1>1. ASSUME NEW s \in Socket, Connect(s) PROVE TypeOK'
  BY <1>1 DEF Connect, TypeOK, sessionVars
<1>2. ASSUME NEW s \in Socket, Start(s) PROVE TypeOK'
  <2>1. BeginClose(s)
    BY <1>2 DEF Start
  <2>2. starts' \in [Socket -> 0..MaxStarts] /\ start' \in [Socket -> StartPc]
    BY <1>0, <1>2 DEF Start, TypeOK, StartPc
  <2> QED
    BY <1>2, <2>1, <2>2, BeginCloseType DEF Start, TypeOK
<1>3. ASSUME NEW s \in Socket, Input(s) PROVE TypeOK'
  BY <1>3 DEF Input, TypeOK
<1>4. ASSUME NEW s \in Socket, ClientCloses(s) \/ Disconnect(s) \/ IdleFires(s) \/ AccessLost(s)
      PROVE  TypeOK'
  <2>1. BeginClose(s)
    BY <1>4 DEF ClientCloses, Disconnect, IdleFires, AccessLost
  <2>2. connected' \in [Socket -> {"new", "open", "gone"}] /\ UNCHANGED <<start, starts, live, abandoned>>
    BY <1>4 DEF ClientCloses, Disconnect, IdleFires, AccessLost, TypeOK
  <2> QED
    BY <2>1, <2>2, BeginCloseType DEF TypeOK
<1>5. ASSUME NEW s \in Socket, StartThrows(s) PROVE TypeOK'
  <2>1. counted' \in [Socket -> BOOLEAN] /\ count' \in [User -> 0..MaxSessions]
    BY <1>5, UncountType DEF StartThrows, KeepCount, TypeOK
  <2> QED
    BY <1>5, <2>1 DEF StartThrows, TypeOK, StartPc
<1>6. ASSUME NEW s \in Socket, Admit(s) PROVE TypeOK'
  BY <1>0, <1>6 DEF Admit, TypeOK, StartPc
<1>7. ASSUME NEW s \in Socket, Opened(s) PROVE TypeOK'
  <2>1. <<s, starts[s]>> \in Shell
    BY <1>0, <1>7 DEF Opened, TypeOK, StartsCounted, Shell
  <2> QED
    BY <1>7, <2>1 DEF Opened, TypeOK, StartPc
<1>8. ASSUME NEW s \in Socket, Resized(s) \/ Ready(s) PROVE TypeOK'
  BY <1>8 DEF Resized, Ready, TypeOK, StartPc, sessionVars
<1>9. ASSUME NEW s \in Socket, ShellClosed(s) PROVE TypeOK'
  <2>1. counted' \in [Socket -> BOOLEAN] /\ count' \in [User -> 0..MaxSessions]
    BY <1>9, UncountType DEF ShellClosed
  <2>2. live' \in SUBSET Shell /\ abandoned' \in SUBSET Shell
    BY <1>9 DEF ShellClosed, TypeOK
  <2> QED
    BY <1>9, <2>1, <2>2 DEF ShellClosed, TypeOK, Closer
<1>10. ASSUME NEW s \in Socket, CloseDone(s) PROVE TypeOK'
  BY <1>10 DEF CloseDone, TypeOK, StartPc, Closer, NotClosing, sessionVars
<1>11. ASSUME NEW h \in Shell, ShellExits(h) PROVE TypeOK'
  BY <1>11 DEF ShellExits, TypeOK, sessionVars
<1>12. CASE UNCHANGED vars
  BY <1>12 DEF vars, sessionVars, TypeOK
<1> QED
  BY <1>1, <1>2, <1>3, <1>4, <1>5, <1>6, <1>7, <1>8, <1>9, <1>10, <1>11, <1>12
     DEF Next, Proceed

\* Only a start event begins a start.
LEMMA NextStartsCounted == TypeOK /\ StartsCounted /\ [Next]_vars => StartsCounted'
<1> SUFFICES ASSUME TypeOK, StartsCounted, [Next]_vars PROVE StartsCounted'
  OBVIOUS
<1>0. /\ start \in [Socket -> StartPc] /\ starts \in [Socket -> 0..MaxStarts]
      /\ MaxStarts \in Nat
  BY TerminalAssumption DEF TypeOK
<1>1. ASSUME NEW s \in Socket, Start(s) PROVE StartsCounted'
  BY <1>0, <1>1 DEF Start, StartsCounted
<1>2. ASSUME NEW s \in Socket, StartThrows(s) \/ Admit(s) \/ Opened(s) \/ Resized(s) \/ Ready(s)
      PROVE  StartsCounted'
  BY <1>0, <1>2 DEF StartThrows, Admit, Opened, Resized, Ready, StartsCounted
<1>3. ASSUME NEW s \in Socket, CloseDone(s) PROVE StartsCounted'
  BY <1>0, <1>3 DEF CloseDone, StartsCounted
<1>4. ASSUME \/ UNCHANGED vars
             \/ \E h \in Shell : ShellExits(h)
             \/ \E s \in Socket : \/ Connect(s) \/ Input(s) \/ ClientCloses(s) \/ Disconnect(s)
                                  \/ IdleFires(s) \/ AccessLost(s) \/ ShellClosed(s)
      PROVE  StartsCounted'
  <2>1. UNCHANGED <<start, starts>>
    BY <1>4 DEF vars, ShellExits, Connect, Input, ClientCloses, Disconnect, IdleFires,
                AccessLost, ShellClosed
  <2> QED
    BY <2>1 DEF StartsCounted
<1> QED
  BY <1>1, <1>2, <1>3, <1>4 DEF Next, Proceed

\* Of patient clients, every step keeps what the handlers rely on.
LEMMA NextAgrees == ASSUME Patient PROVE IInv /\ [Next]_vars => HandlersAgree'
<1> SUFFICES ASSUME IInv, [Next]_vars PROVE HandlersAgree'
  OBVIOUS
<1> USE DEF IInv
<1>0. /\ closer \in [Socket -> Closer] /\ counted \in [Socket -> BOOLEAN]
      /\ backend \in [Socket -> Shell \cup {None}] /\ start \in [Socket -> StartPc]
      /\ starts \in [Socket -> 0..MaxStarts] /\ MaxStarts \in Nat
  BY TerminalAssumption DEF TypeOK
<1>2. ASSUME NEW s \in Socket, Start(s) PROVE HandlersAgree'
  <2>1. BeginClose(s) /\ closer[s].pc = "none" /\ start[s] = "none"
    BY <1>2 DEF Start
  <2>2. /\ starts' = [starts EXCEPT ![s] = @ + 1]
        /\ start' = [start EXCEPT ![s] = IF closer'[s].pc # "none"
                                         THEN "closing" ELSE "authenticating"]
    BY <1>2, <2>1 DEF Start
  <2>3. starts'[s] > 0 /\ \A r \in Socket \ {s} : starts'[r] = starts[r] /\ start'[r] = start[r]
    BY <1>0, <2>2
  <2>4. start'[s] = IF closer'[s].pc # "none" THEN "closing" ELSE "authenticating"
    BY <1>0, <2>2
  <2> QED
    BY <2>1, <2>3, <2>4, BeginCloseAgrees DEF HandlersAgree, Opening
<1>4. ASSUME NEW s \in Socket, ClientCloses(s) \/ Disconnect(s) \/ IdleFires(s) \/ AccessLost(s)
      PROVE  HandlersAgree'
  <2>1. BeginClose(s) /\ UNCHANGED <<start, starts>>
    BY <1>4 DEF ClientCloses, Disconnect, IdleFires, AccessLost
  <2> QED
    BY <2>1, BeginCloseAgrees DEF HandlersAgree
<1>5. ASSUME NEW s \in Socket, StartThrows(s) PROVE HandlersAgree'
  BY <1>0, <1>5 DEF StartThrows, KeepCount, Uncount, HandlersAgree, Opening
<1>6. ASSUME NEW s \in Socket, Admit(s) PROVE HandlersAgree'
  BY <1>0, <1>6 DEF Admit, HandlersAgree, Opening
<1>7. ASSUME NEW s \in Socket, Opened(s) \/ Resized(s) \/ Ready(s) PROVE HandlersAgree'
  BY <1>0, <1>7 DEF Opened, Resized, Ready, HandlersAgree, Opening, sessionVars
<1>9. ASSUME NEW s \in Socket, ShellClosed(s) PROVE HandlersAgree'
  BY <1>0, <1>9 DEF ShellClosed, Uncount, HandlersAgree, Closer
<1>10. ASSUME NEW s \in Socket, CloseDone(s) PROVE HandlersAgree'
  BY <1>0, <1>10 DEF CloseDone, HandlersAgree, NotClosing, Closer, Opening, sessionVars
<1>11. ASSUME \/ UNCHANGED vars
              \/ \E h \in Shell : ShellExits(h)
              \/ \E s \in Socket : Connect(s) \/ Input(s)
       PROVE  HandlersAgree'
  <2>1. UNCHANGED <<start, starts, backend, counted, closer>>
    BY <1>11 DEF vars, sessionVars, ShellExits, Connect, Input
  <2> QED
    BY <2>1 DEF HandlersAgree
<1> QED
  BY <1>2, <1>4, <1>5, <1>6, <1>7, <1>9, <1>10, <1>11 DEF Next, Proceed

LEMMA Invariance == ASSUME Patient PROVE Spec => []IInv
<1>1. IInv /\ [Next]_vars => IInv'
  BY NextType, NextStartsCounted, NextAgrees DEF IInv
<1> QED
  BY InitInv, <1>1, PTL DEF Spec

\* Whatever the clients do, patient or not, every variable keeps its type: in
\* particular no user is ever counted beyond MAX_SESSIONS_PER_USER.
THEOREM TypeCorrect == Spec => []TypeOK
<1>1. Init => TypeOK /\ StartsCounted
  BY InitInv DEF IInv
<1> QED
  BY <1>1, NextType, NextStartsCounted, PTL DEF Spec

-----------------------------------------------------------------------------
(* The table of sessions per user.                                         *)

LEMMA CountedFinite ==
  ASSUME NEW u \in User
  PROVE  IsFiniteSet(CountedOf(u)) /\ Cardinality(CountedOf(u)) \in Nat
<1>1. CountedOf(u) \subseteq Socket /\ IsFiniteSet(Socket)
  BY TerminalAssumption DEF CountedOf
<1> QED
  BY <1>1, FS_Subset, FS_CardinalityType

\* Nothing but a change of "counted" disturbs the table.
LEMMA KeepExact ==
  ASSUME CountIsExact, counted' = counted, count' = count
  PROVE  CountIsExact'
BY DEF CountIsExact

\* Giving a session back keeps the table exact.
LEMMA UncountExact ==
  ASSUME TypeOK, CountIsExact, NEW s \in Socket, Uncount(s)
  PROVE  CountIsExact'
<1>0. /\ counted \in [Socket -> BOOLEAN] /\ count \in [User -> 0..MaxSessions]
      /\ UserOf[s] \in User /\ MaxSessions \in Nat
  BY TerminalAssumption DEF TypeOK
<1>1. CASE ~counted[s]
  <2>1. counted' = counted /\ count' = count
    BY <1>0, <1>1 DEF Uncount
  <2> QED
    BY <2>1, KeepExact
<1>2. CASE counted[s]
  <2>1. counted' = [counted EXCEPT ![s] = FALSE]
    BY DEF Uncount
  <2> SUFFICES ASSUME NEW u \in User
               PROVE  count'[u] = Cardinality({r \in Socket : UserOf[r] = u /\ counted'[r]})
    BY DEF CountIsExact
  <2>2. CASE u # UserOf[s]
    <3>1. {r \in Socket : UserOf[r] = u /\ counted'[r]} = CountedOf(u)
      BY <1>0, <2>1, <2>2 DEF CountedOf
    <3>2. count'[u] = count[u]
      BY <1>0, <2>2 DEF Uncount
    <3> QED
      BY <3>1, <3>2 DEF CountIsExact, CountedOf
  <2>3. CASE u = UserOf[s]
    <3>1. {r \in Socket : UserOf[r] = u /\ counted'[r]} = CountedOf(u) \ {s}
      BY <1>0, <2>1, <2>3 DEF CountedOf
    <3>2. s \in CountedOf(u)
      BY <1>2, <2>3 DEF CountedOf
    <3>3. Cardinality(CountedOf(u) \ {s}) = Cardinality(CountedOf(u)) - 1
      BY <3>2, CountedFinite, FS_RemoveElement
    <3>4. count[u] = Cardinality(CountedOf(u)) /\ count[u] # 0
      BY <3>2, CountedFinite, FS_EmptySet DEF CountIsExact, CountedOf
    <3>5. count'[u] = count[u] - 1
      BY <1>0, <1>2, <2>3, <3>4 DEF Uncount
    <3> QED
      BY <3>1, <3>3, <3>4, <3>5
  <2> QED
    BY <2>2, <2>3
<1> QED
  BY <1>1, <1>2

\* Admitting a session that was not counted keeps the table exact.
LEMMA AdmitExact ==
  ASSUME IInv, CountIsExact, NEW s \in Socket, Admit(s)
  PROVE  CountIsExact'
<1>0. /\ counted \in [Socket -> BOOLEAN] /\ count \in [User -> 0..MaxSessions]
      /\ UserOf[s] \in User /\ MaxSessions \in Nat
  BY TerminalAssumption DEF IInv, TypeOK
<1>1. ~counted[s]
  BY DEF Admit, IInv, HandlersAgree
<1>2. /\ counted' = [counted EXCEPT ![s] = TRUE]
      /\ count' = [count EXCEPT ![UserOf[s]] = @ + 1]
  BY DEF Admit
<1> SUFFICES ASSUME NEW u \in User
             PROVE  count'[u] = Cardinality({r \in Socket : UserOf[r] = u /\ counted'[r]})
  BY DEF CountIsExact
<1>3. CASE u # UserOf[s]
  <2>1. {r \in Socket : UserOf[r] = u /\ counted'[r]} = CountedOf(u)
    BY <1>0, <1>2, <1>3 DEF CountedOf
  <2>2. count'[u] = count[u]
    BY <1>0, <1>2, <1>3
  <2> QED
    BY <2>1, <2>2 DEF CountIsExact, CountedOf
<1>4. CASE u = UserOf[s]
  <2>1. {r \in Socket : UserOf[r] = u /\ counted'[r]} = CountedOf(u) \cup {s}
    BY <1>0, <1>2, <1>4 DEF CountedOf
  <2>2. s \notin CountedOf(u)
    BY <1>1 DEF CountedOf
  <2>3. Cardinality(CountedOf(u) \cup {s}) = Cardinality(CountedOf(u)) + 1
    BY <2>2, CountedFinite, FS_AddElement
  <2>4. count[u] = Cardinality(CountedOf(u)) /\ count'[u] = count[u] + 1
    BY <1>0, <1>2, <1>4 DEF CountIsExact, CountedOf
  <2> QED
    BY <2>1, <2>3, <2>4
<1> QED
  BY <1>3, <1>4

\* The closing handlers either leave the table alone or give one session back.
LEMMA BeginCloseExact ==
  ASSUME TypeOK, CountIsExact, NEW s \in Socket, BeginClose(s)
  PROVE  CountIsExact'
<1>1. (counted' = counted /\ count' = count) \/ Uncount(s)
  BY DEF BeginClose, KeepCount, sessionVars
<1> QED
  BY <1>1, KeepExact, UncountExact

\* Whatever handlers of a patient client overlap at their awaits, the table
\* activeSessionsByUser stays the number of counted sockets.
THEOREM CountExact == ASSUME Patient PROVE Spec => []CountIsExact
<1>1. Init => CountIsExact
  <2> SUFFICES ASSUME Init, NEW u \in User
               PROVE  count[u] = Cardinality({s \in Socket : UserOf[s] = u /\ counted[s]})
    BY DEF CountIsExact
  <2>1. {s \in Socket : UserOf[s] = u /\ counted[s]} = {}
    BY DEF Init
  <2> QED
    BY <2>1, FS_EmptySet DEF Init
<1>2. IInv /\ CountIsExact /\ [Next]_vars => CountIsExact'
  <2> SUFFICES ASSUME IInv, CountIsExact, [Next]_vars PROVE CountIsExact'
    OBVIOUS
  <2>0. TypeOK
    BY DEF IInv
  <2>1. ASSUME NEW s \in Socket,
               \/ Start(s) \/ ClientCloses(s) \/ Disconnect(s) \/ IdleFires(s) \/ AccessLost(s)
        PROVE  CountIsExact'
    <3>1. BeginClose(s)
      BY <2>1 DEF Start, ClientCloses, Disconnect, IdleFires, AccessLost
    <3> QED
      BY <2>0, <3>1, BeginCloseExact
  <2>2. ASSUME NEW s \in Socket, Admit(s) PROVE CountIsExact'
    BY <2>2, AdmitExact
  <2>3. ASSUME NEW s \in Socket, StartThrows(s) \/ ShellClosed(s) PROVE CountIsExact'
    <3>1. (counted' = counted /\ count' = count) \/ Uncount(s)
      BY <2>3 DEF StartThrows, ShellClosed, KeepCount
    <3> QED
      BY <2>0, <3>1, KeepExact, UncountExact
  <2>4. ASSUME \/ UNCHANGED vars
               \/ \E h \in Shell : ShellExits(h)
               \/ \E s \in Socket : \/ Connect(s) \/ Input(s) \/ Opened(s) \/ Resized(s)
                                    \/ Ready(s) \/ CloseDone(s)
        PROVE  CountIsExact'
    <3>1. counted' = counted /\ count' = count
      BY <2>4 DEF vars, sessionVars, ShellExits, Connect, Input, Opened, Resized, Ready, CloseDone
    <3> QED
      BY <3>1, KeepExact
  <2> QED
    BY <2>1, <2>2, <2>3, <2>4 DEF Next, Proceed
<1> QED
  BY Invariance, <1>1, <1>2, PTL DEF Spec

-----------------------------------------------------------------------------
\* A shell opened for a session that was closed or disconnected meanwhile is
\* still in its socket's hands, so a later close, the idle timer or the access
\* check ends it, unless the end itself fails.
THEOREM OnlyFailedClosesLose == ASSUME Patient PROVE Spec => []OnlyFailedClosesLoseShells
<1>1. Init => OnlyFailedClosesLoseShells
  BY DEF Init, OnlyFailedClosesLoseShells
<1>2. IInv /\ OnlyFailedClosesLoseShells /\ [Next]_vars => OnlyFailedClosesLoseShells'
  <2> SUFFICES ASSUME IInv, OnlyFailedClosesLoseShells, [Next]_vars PROVE OnlyFailedClosesLoseShells'
    OBVIOUS
  <2>0. /\ backend \in [Socket -> Shell \cup {None}] /\ closer \in [Socket -> Closer]
        /\ live \subseteq Shell /\ None \notin Shell
        /\ \A h \in Shell : h[1] \in Socket
    BY TerminalAssumption DEF IInv, TypeOK, Shell
  <2>1. ASSUME NEW s \in Socket, BeginClose(s), live' = live, abandoned' = abandoned
        PROVE  OnlyFailedClosesLoseShells'
    <3>1. \A h \in live : h[1] # s => backend'[h[1]] = h \/ closer'[h[1]].shell = h \/ h \in abandoned
      BY <2>0, <2>1, BeginCloseAgrees DEF IInv, OnlyFailedClosesLoseShells
    <3>2. \A h \in live : h[1] = s => backend'[s] = h \/ closer'[s].shell = h \/ h \in abandoned
      <4>1. CASE closer[s].pc # "none"
        BY <2>1, <4>1 DEF BeginClose, OnlyFailedClosesLoseShells, sessionVars
      <4>2. CASE closer[s].pc = "none"
        <5>1. closer[s].shell = None
          BY <4>2 DEF IInv, HandlersAgree
        <5>2. \A h \in live : h[1] = s => (backend[s] = h /\ h # None) \/ h \in abandoned
          BY <2>0, <5>1 DEF OnlyFailedClosesLoseShells
        <5>3. backend[s] # None => closer'[s].shell = backend[s]
          BY <2>0, <2>1, <4>2 DEF BeginClose
        <5> QED
          BY <5>2, <5>3
      <4> QED
        BY <4>1, <4>2
    <3> QED
      BY <2>0, <2>1, <3>1, <3>2 DEF OnlyFailedClosesLoseShells
  <2>2. ASSUME NEW s \in Socket,
               \/ Start(s) \/ ClientCloses(s) \/ Disconnect(s) \/ IdleFires(s) \/ AccessLost(s)
        PROVE  OnlyFailedClosesLoseShells'
    <3>1. BeginClose(s) /\ live' = live /\ abandoned' = abandoned
      BY <2>2 DEF Start, ClientCloses, Disconnect, IdleFires, AccessLost
    <3> QED
      BY <2>1, <3>1
  <2>3. ASSUME NEW s \in Socket, Opened(s) PROVE OnlyFailedClosesLoseShells'
    <3>1. backend[s] = None
      BY <2>3 DEF Opened, IInv, HandlersAgree, Opening
    <3>2. /\ backend' = [backend EXCEPT ![s] = <<s, starts[s]>>]
          /\ live' = live \cup {<<s, starts[s]>>} /\ closer' = closer /\ abandoned' = abandoned
      BY <2>3 DEF Opened
    <3>3. ASSUME NEW h \in live' PROVE backend'[h[1]] = h \/ closer'[h[1]].shell = h \/ h \in abandoned'
      <4>1. CASE h = <<s, starts[s]>>
        BY <2>0, <3>2, <4>1
      <4>2. CASE h \in live
        BY <2>0, <3>1, <3>2, <4>2 DEF OnlyFailedClosesLoseShells
      <4> QED
        BY <3>2, <4>1, <4>2
    <3> QED
      BY <3>3 DEF OnlyFailedClosesLoseShells
  <2>4. ASSUME NEW s \in Socket, ShellClosed(s) PROVE OnlyFailedClosesLoseShells'
    BY <2>0, <2>4 DEF ShellClosed, OnlyFailedClosesLoseShells
  <2>5. ASSUME NEW s \in Socket, CloseDone(s) PROVE OnlyFailedClosesLoseShells'
    <3>1. closer[s].shell = None
      BY <2>5 DEF CloseDone, IInv, HandlersAgree
    <3> QED
      BY <2>0, <2>5, <3>1 DEF CloseDone, OnlyFailedClosesLoseShells, sessionVars
  <2>6. ASSUME \/ UNCHANGED vars
               \/ \E h \in Shell : ShellExits(h)
               \/ \E s \in Socket : \/ Connect(s) \/ Input(s) \/ Resized(s) \/ Ready(s)
                                    \/ StartThrows(s) \/ Admit(s)
        PROVE  OnlyFailedClosesLoseShells'
    <3>1. backend' = backend /\ closer' = closer /\ live' \subseteq live /\ abandoned' = abandoned
      BY <2>6 DEF vars, sessionVars, ShellExits, Connect, Input, Resized, Ready, StartThrows, Admit
    <3> QED
      BY <3>1 DEF OnlyFailedClosesLoseShells
  <2> QED
    BY <2>2, <2>3, <2>4, <2>5, <2>6 DEF Next, Proceed
<1> QED
  BY Invariance, <1>1, <1>2, PTL DEF Spec

-----------------------------------------------------------------------------
(* The shells of clients that are gone end.  ENABLED is written out: the    *)
(* handlers of a socket can go on while one of them is at an await, and the *)
(* idle timer can fire while it is armed and no close is under way.         *)

CanProceed(s) ==
  \/ start[s] \in {"authenticating", "opening", "resizing", "auditing"}
  \/ closer[s].pc # "none"
CanIdle(s) == idle[s] /\ closer[s].pc = "none"

\* Weak fairness of Proceed(s) and of IdleFires(s), as seen at one moment.
HandlersRun(s) == <>~CanProceed(s) \/ <><<Proceed(s)>>_vars
TimerRuns(s) == <>~CanIdle(s) \/ <><<IdleFires(s)>>_vars
AllRun == \A s \in Socket : HandlersRun(s) /\ TimerRuns(s)
Scheduling == []AllRun

\* A shell past its first resize has its idle timer armed.
TimerArmed ==
  \A s \in Socket : backend[s] # None /\ start[s] # "resizing" => idle[s]

LiveInv == IInv /\ OnlyFailedClosesLoseShells /\ TimerArmed

StartRank(s) ==
  CASE start[s] = "auditing" -> 1
    [] start[s] = "resizing" -> 2
    [] start[s] = "opening" -> 3
    [] start[s] = "authenticating" -> 4
    [] OTHER -> 0
CloserRank(s) ==
  CASE closer[s].pc = "audit" -> 1
    [] closer[s].pc = "shell" -> 2
    [] OTHER -> 0

\* The shell does not run, or ending it was tried.
Over(h) == h \notin live \/ h \in abandoned

\* A shell whose client is gone, in the hands of closeSession or of its socket.
Closing(h) ==
  connected[h[1]] = "gone" /\ ~Over(h) /\ closer[h[1]].shell = h
Held(h) ==
  /\ connected[h[1]] = "gone" /\ ~Over(h)
  /\ backend[h[1]] = h /\ closer[h[1]].shell # h

ClosingAt(h, k) == Closing(h) /\ StartRank(h[1]) = k
ClosingBelow(h, k) == Closing(h) /\ StartRank(h[1]) < k
HeldAt(h, k) == Held(h) /\ StartRank(h[1]) + CloserRank(h[1]) = k
HeldBelow(h, k) == Held(h) /\ StartRank(h[1]) + CloserRank(h[1]) < k

LEMMA Ranks ==
  ASSUME NEW s \in Socket
  PROVE  StartRank(s) \in 0..4 /\ CloserRank(s) \in 0..2
BY DEF StartRank, CloserRank

LEMMA TimerIsArmed == ASSUME Patient PROVE Spec => []LiveInv
<1>1. Init => TimerArmed
  BY DEF Init, TimerArmed
<1>2. IInv /\ TimerArmed /\ [Next]_vars => TimerArmed'
  <2> SUFFICES ASSUME IInv, TimerArmed, [Next]_vars PROVE TimerArmed'
    OBVIOUS
  <2>0. /\ backend \in [Socket -> Shell \cup {None}] /\ closer \in [Socket -> Closer]
        /\ start \in [Socket -> StartPc] /\ idle \in [Socket -> BOOLEAN]
    BY DEF IInv, TypeOK
  <2>1. ASSUME NEW s \in Socket, BeginClose(s) PROVE backend'[s] = None \/ UNCHANGED <<idle, backend>>
    BY <2>0, <2>1 DEF BeginClose, sessionVars
  <2>2. ASSUME NEW s \in Socket, BeginClose(s)
        PROVE  \A r \in Socket \ {s} : idle'[r] = idle[r] /\ backend'[r] = backend[r]
    BY <2>0, <2>2 DEF BeginClose, sessionVars
  <2>3. ASSUME NEW s \in Socket, Start(s) PROVE TimerArmed'
    <3>1. BeginClose(s) /\ closer[s].pc = "none"
      BY <2>3 DEF Start
    <3>2. \A r \in Socket \ {s} : start'[r] = start[r]
      BY <2>0, <2>3 DEF Start
    <3>3. backend'[s] = None
      BY <2>0, <3>1 DEF BeginClose
    <3> QED
      BY <2>2, <3>1, <3>2, <3>3 DEF TimerArmed
  <2>4. ASSUME NEW s \in Socket, ClientCloses(s) \/ Disconnect(s) \/ IdleFires(s) \/ AccessLost(s)
        PROVE  TimerArmed'
    <3>1. BeginClose(s) /\ start' = start
      BY <2>4 DEF ClientCloses, Disconnect, IdleFires, AccessLost
    <3> QED
      BY <2>1, <2>2, <3>1 DEF TimerArmed
  <2>5. ASSUME NEW s \in Socket, StartThrows(s) \/ Admit(s) PROVE TimerArmed'
    BY <2>0, <2>5 DEF StartThrows, Admit, TimerArmed
  <2>6. ASSUME NEW s \in Socket, Opened(s) \/ Resized(s) PROVE TimerArmed'
    BY <2>0, <2>6 DEF Opened, Resized, TimerArmed
  <2>7. ASSUME NEW s \in Socket, Ready(s) \/ Input(s) \/ Connect(s) PROVE TimerArmed'
    BY <2>0, <2>7 DEF Ready, Input, Connect, TimerArmed, sessionVars
  <2>8. ASSUME NEW s \in Socket, ShellClosed(s) \/ CloseDone(s) PROVE TimerArmed'
    BY <2>0, <2>8 DEF ShellClosed, CloseDone, TimerArmed, sessionVars
  <2>9. ASSUME UNCHANGED vars \/ \E h \in Shell : ShellExits(h) PROVE TimerArmed'
    BY <2>9 DEF vars, sessionVars, ShellExits, TimerArmed
  <2> QED
    BY <2>3, <2>4, <2>5, <2>6, <2>7, <2>8, <2>9 DEF Next, Proceed
<1> QED
  BY <1>1, <1>2, Invariance, OnlyFailedClosesLose, PTL DEF Spec, LiveInv

\* What the steps of others leave alone.
Untouched(s) ==
  /\ start'[s] = start[s] /\ closer'[s] = closer[s] /\ backend'[s] = backend[s]
  /\ idle'[s] = idle[s]

\* When the client of a socket is gone, its handlers run on, its timer fires or
\* its access check fails, and nothing else happens to it.
LEMMA GoneSteps ==
  ASSUME LiveInv, [Next]_vars, NEW s \in Socket, connected[s] = "gone"
  PROVE  /\ connected'[s] = "gone"
         /\ \/ Untouched(s) /\ ~Proceed(s)
            \/ BeginClose(s) /\ UNCHANGED <<start, live, abandoned>> /\ ~Proceed(s)
            \/ Proceed(s)
<1>0. /\ backend \in [Socket -> Shell \cup {None}] /\ closer \in [Socket -> Closer]
      /\ start \in [Socket -> StartPc] /\ connected \in [Socket -> {"new", "open", "gone"}]
      /\ idle \in [Socket -> BOOLEAN]
  BY DEF LiveInv, IInv, TypeOK
<1>1. connected'[s] = "gone"
  BY <1>0 DEF Next, Proceed, Connect, Start, Input, ClientCloses, Disconnect, IdleFires,
              AccessLost, StartThrows, Admit, Opened, Resized, Ready, ShellClosed,
              CloseDone, ShellExits, vars
<1>2. CASE Proceed(s)
  BY <1>1, <1>2
<1>3. CASE ~Proceed(s)
  <2>1. ASSUME NEW r \in Socket, BeginClose(r), r # s PROVE
           closer'[s] = closer[s] /\ backend'[s] = backend[s] /\ idle'[s] = idle[s]
    BY <1>0, <2>1 DEF BeginClose, sessionVars
  <2>2. ASSUME NEW r \in Socket, ClientCloses(r) \/ Disconnect(r) \/ IdleFires(r) \/ AccessLost(r)
        PROVE  Untouched(s) \/ (BeginClose(s) /\ UNCHANGED <<start, live, abandoned>>)
    BY <2>1, <2>2 DEF ClientCloses, Disconnect, IdleFires, AccessLost, Untouched
  <2>3. ASSUME NEW r \in Socket, Start(r) PROVE Untouched(s)
    <3>1. r # s /\ BeginClose(r)
      BY <2>3 DEF Start
    <3>2. start'[s] = start[s]
      BY <1>0, <2>3, <3>1 DEF Start
    <3> QED
      BY <2>1, <3>1, <3>2 DEF Untouched
  <2>4. ASSUME NEW r \in Socket, Connect(r) \/ Input(r) PROVE Untouched(s)
    BY <1>0, <2>4 DEF Connect, Input, Untouched, sessionVars
  <2>5. ASSUME NEW r \in Socket, Proceed(r) PROVE Untouched(s)
    <3>1. r # s
      BY <1>3, <2>5
    <3> QED
      BY <1>0, <2>5, <3>1 DEF Proceed, StartThrows, Admit, Opened, Resized, Ready, ShellClosed,
                              CloseDone, Untouched, sessionVars
  <2>6. ASSUME UNCHANGED vars \/ \E h \in Shell : ShellExits(h) PROVE Untouched(s)
    BY <2>6 DEF vars, sessionVars, ShellExits, Untouched
  <2> QED
    BY <1>1, <1>3, <2>2, <2>3, <2>4, <2>5, <2>6 DEF Next
<1> QED
  BY <1>2, <1>3

\* A step of the handlers of a socket takes one of its two handlers forward.
LEMMA ProceedSteps ==
  ASSUME LiveInv, NEW s \in Socket, Proceed(s)
  PROVE  /\ \/ /\ closer'[s] = closer[s]
               /\ StartRank(s)' < StartRank(s)
               /\ live \subseteq live'
               /\ backend'[s] = backend[s] \/ start[s] = "opening"
            \/ /\ closer[s].pc = "shell"
               /\ closer[s].shell \notin live' \/ closer[s].shell \in abandoned'
               /\ closer'[s] = [pc |-> "audit", shell |-> None]
               /\ start'[s] = start[s] /\ backend'[s] = backend[s]
            \/ /\ closer[s].pc = "audit" /\ live' = live /\ closer'[s] = NotClosing
               /\ backend'[s] = backend[s]
               /\ start'[s] = start[s] \/ start[s] = "closing"
<1>0. /\ backend \in [Socket -> Shell \cup {None}] /\ closer \in [Socket -> Closer]
      /\ start \in [Socket -> StartPc]
  BY DEF LiveInv, IInv, TypeOK
<1>1. CASE StartThrows(s) \/ Admit(s) \/ Opened(s) \/ Resized(s) \/ Ready(s)
  BY <1>0, <1>1 DEF StartThrows, Admit, Opened, Resized, Ready, StartRank, sessionVars
<1>2. CASE ShellClosed(s)
  BY <1>0, <1>2 DEF ShellClosed
<1>3. CASE CloseDone(s)
  BY <1>0, <1>3 DEF CloseDone, sessionVars
<1> QED
  BY <1>1, <1>2, <1>3 DEF Proceed

LEMMA ClosingIsShell ==
  ASSUME LiveInv, NEW h \in Shell, Closing(h)
  PROVE  h[1] \in Socket /\ h # None /\ closer[h[1]].pc = "shell"
<1>1. h[1] \in Socket /\ h # None
  BY TerminalAssumption DEF Shell
<1> QED
  BY <1>1 DEF Closing, LiveInv, IInv, HandlersAgree

\* What is being closed ends, or fails to; until then the handlers of its socket only come
\* closer to their rest.
LEMMA ClosingStep ==
  ASSUME LiveInv, NEW h \in Shell, Closing(h), [Next]_vars
  PROVE  /\ Over(h)' \/ (Closing(h)' /\ StartRank(h[1])' <= StartRank(h[1]))
         /\ Proceed(h[1]) => Over(h)' \/ StartRank(h[1])' < StartRank(h[1])
<1>1. PICK s \in Socket : s = h[1]
  BY ClosingIsShell
<1>2. closer[s].pc = "shell" /\ closer[s].shell = h /\ connected[s] = "gone" /\ ~Over(h)
  BY <1>1, ClosingIsShell DEF Closing
<1>3. connected'[s] = "gone"
  BY <1>2, GoneSteps
<1>r. StartRank(s) \in Nat
  BY Ranks
<1>4. CASE ~Proceed(s)
  <2>1. start'[s] = start[s] /\ closer'[s] = closer[s]
    BY <1>2, <1>4, GoneSteps DEF Untouched, BeginClose
  <2>2. StartRank(s)' = StartRank(s)
    BY <2>1 DEF StartRank
  <2> QED
    BY <1>1, <1>2, <1>3, <1>4, <1>r, <2>1, <2>2 DEF Closing
<1>5. CASE Proceed(s)
  <2>1. Over(h)' \/ (closer'[s] = closer[s] /\ StartRank(s)' < StartRank(s))
    BY <1>2, <1>5, ProceedSteps DEF Over
  <2>2. StartRank(s)' \in Nat
    BY DEF StartRank
  <2> QED
    BY <1>1, <1>2, <1>3, <1>r, <2>1, <2>2 DEF Closing
<1> QED
  BY <1>4, <1>5

\* What its socket still holds stays there while handlers come to their rest, or
\* is taken over by closeSession.
LEMMA HeldStep ==
  ASSUME LiveInv, NEW h \in Shell, Held(h), [Next]_vars
  PROVE  /\ \/ Over(h)'
            \/ Closing(h)'
            \/ Held(h)' /\ StartRank(h[1])' + CloserRank(h[1])'
                             <= StartRank(h[1]) + CloserRank(h[1])
         /\ Proceed(h[1]) =>
              \/ Over(h)'
              \/ StartRank(h[1])' + CloserRank(h[1])' < StartRank(h[1]) + CloserRank(h[1])
         /\ IdleFires(h[1]) => Closing(h)'
<1>0. h[1] \in Socket /\ h # None
  BY TerminalAssumption DEF Shell
<1>1. PICK s \in Socket : s = h[1]
  BY <1>0
<1>2. /\ backend[s] = h /\ connected[s] = "gone" /\ ~Over(h) /\ closer[s].shell # h
      /\ start[s] \notin Opening /\ h # None
      /\ closer \in [Socket -> Closer] /\ backend \in [Socket -> Shell \cup {None}]
  BY <1>0, <1>1 DEF Held, LiveInv, IInv, TypeOK, HandlersAgree
<1>3. connected'[s] = "gone"
  BY <1>2, GoneSteps
<1>4. CASE ~Proceed(s) /\ Untouched(s)
  <2>1. StartRank(s)' = StartRank(s) /\ CloserRank(s)' = CloserRank(s)
    BY <1>4 DEF Untouched, StartRank, CloserRank
  <2>2. ~IdleFires(s)
    BY <1>2, <1>4 DEF Untouched, IdleFires, BeginClose
  <2> QED
    BY <1>1, <1>2, <1>3, <1>4, <2>1, <2>2, Ranks DEF Held, Untouched
<1>5. CASE ~Proceed(s) /\ BeginClose(s) /\ UNCHANGED <<start, live, abandoned>>
  <2>1. CASE closer[s].pc = "none"
    <3>1. closer'[s].shell = h
      BY <1>2, <1>5, <2>1 DEF BeginClose
    <3> QED
      BY <1>1, <1>2, <1>3, <1>5, <3>1 DEF Closing, Over
  <2>2. CASE closer[s].pc # "none"
    <3>1. closer' = closer /\ backend' = backend /\ ~IdleFires(s)
      BY <1>5, <2>2 DEF BeginClose, sessionVars, IdleFires
    <3>2. StartRank(s)' = StartRank(s) /\ CloserRank(s)' = CloserRank(s)
      BY <1>5, <3>1 DEF StartRank, CloserRank
    <3> QED
      BY <1>1, <1>2, <1>3, <1>5, <3>1, <3>2, Ranks DEF Held
  <2> QED
    BY <2>1, <2>2
<1>6. CASE Proceed(s)
  <2>0. StartRank(s) \in Nat /\ CloserRank(s) \in Nat /\ StartRank(s)' \in Nat /\ CloserRank(s)' \in Nat
    BY DEF StartRank, CloserRank
  <2>1. ~IdleFires(s)
    <3> SUFFICES ASSUME IdleFires(s) PROVE FALSE
      OBVIOUS
    <3>1. backend'[s] = None /\ start' = start /\ closer[s].pc = "none"
      BY <1>2 DEF IdleFires, BeginClose
    <3>2. StartRank(s)' = StartRank(s)
      BY <3>1 DEF StartRank
    <3> QED
      BY <1>6, <2>0, <3>1, <3>2, ProceedSteps
  <2>2. CASE /\ closer'[s] = closer[s]
             /\ StartRank(s)' < StartRank(s)
             /\ live \subseteq live'
             /\ backend'[s] = backend[s] \/ start[s] = "opening"
    <3>1. CloserRank(s)' = CloserRank(s)
      BY <2>2 DEF CloserRank
    <3> QED
      BY <1>1, <1>2, <1>3, <2>0, <2>1, <2>2, <3>1 DEF Held, Opening
  <2>3. CASE /\ closer[s].pc = "shell"
             /\ closer[s].shell \notin live' \/ closer[s].shell \in abandoned'
             /\ closer'[s] = [pc |-> "audit", shell |-> None]
             /\ start'[s] = start[s] /\ backend'[s] = backend[s]
    <3>1. StartRank(s)' = StartRank(s) /\ CloserRank(s) = 2 /\ CloserRank(s)' = 1
      BY <2>3 DEF StartRank, CloserRank
    <3> QED
      BY <1>1, <1>2, <1>3, <2>0, <2>1, <2>3, <3>1 DEF Held, Over
  <2>4. CASE /\ closer[s].pc = "audit" /\ live' = live /\ closer'[s] = NotClosing
             /\ backend'[s] = backend[s]
             /\ start'[s] = start[s] \/ start[s] = "closing"
    <3>1. start'[s] = start[s]
      BY <1>2, <2>4 DEF Opening
    <3>2. StartRank(s)' = StartRank(s) /\ CloserRank(s) = 1 /\ CloserRank(s)' = 0
      BY <2>4, <3>1 DEF StartRank, CloserRank, NotClosing
    <3> QED
      BY <1>1, <1>2, <1>3, <2>0, <2>1, <2>4, <3>2 DEF Held, NotClosing
  <2> QED
    BY <1>6, <2>2, <2>3, <2>4, ProceedSteps
<1> QED
  BY <1>2, <1>4, <1>5, <1>6, GoneSteps

\* The temporal facts that the rest of the argument is made of.
Running == [][Next]_vars /\ []LiveInv /\ Scheduling

\* One rank at a time, both kinds of shells come closer to their end.
ClosingComesDown(h, n, k) ==
  ClosingBelow(h, n) ~> ClosingBelow(h, k) \/ Over(h)
HeldComesDown(h, n, k) ==
  HeldBelow(h, n) ~> HeldBelow(h, k) \/ Closing(h) \/ Over(h)

LEMMA ClosingDown ==
  ASSUME NEW h \in Shell, NEW k \in Nat, NEW n \in Nat, n = k + 1
  PROVE  Running => ClosingComesDown(h, n, k)
<1>0. h[1] \in Socket /\ StartRank(h[1]) \in Nat /\ StartRank(h[1])' \in Nat
  BY DEF Shell, StartRank
<1>1. LiveInv /\ ClosingAt(h, k) /\ [Next]_vars =>
        ClosingAt(h, k)' \/ ClosingBelow(h, k)' \/ Over(h)'
  BY <1>0, ClosingStep DEF ClosingAt, ClosingBelow
<1>2. LiveInv /\ ClosingAt(h, k) /\ <<Proceed(h[1])>>_vars =>
        ClosingBelow(h, k)' \/ Over(h)'
  <2>1. Proceed(h[1]) => [Next]_vars
    BY <1>0 DEF Next
  <2> QED
    BY <1>0, <2>1, ClosingStep DEF ClosingAt, ClosingBelow
<1>3. LiveInv /\ ClosingAt(h, k) => CanProceed(h[1])
  BY ClosingIsShell DEF ClosingAt, CanProceed
<1>4. ClosingBelow(h, n) => ClosingAt(h, k) \/ ClosingBelow(h, k)
  BY <1>0 DEF ClosingAt, ClosingBelow
<1>5. AllRun => HandlersRun(h[1])
  BY <1>0 DEF AllRun
<1> QED
  BY <1>1, <1>2, <1>3, <1>4, <1>5, PTL DEF Running, Scheduling, HandlersRun, ClosingComesDown

LEMMA ClosingEnds ==
  ASSUME NEW h \in Shell
  PROVE  Running => (Closing(h) ~> Over(h))
<1>1. Running => ClosingComesDown(h, 1, 0)
  BY ClosingDown
<1>2. Running => ClosingComesDown(h, 2, 1)
  BY ClosingDown
<1>3. Running => ClosingComesDown(h, 3, 2)
  BY ClosingDown
<1>4. Running => ClosingComesDown(h, 4, 3)
  BY ClosingDown
<1>5. Running => ClosingComesDown(h, 5, 4)
  BY ClosingDown
<1>6. Closing(h) => ClosingBelow(h, 5)
  <2>1. h[1] \in Socket
    BY DEF Shell
  <2> QED
    BY <2>1, Ranks DEF ClosingBelow
<1>7. ~ClosingBelow(h, 0)
  <2>1. h[1] \in Socket
    BY DEF Shell
  <2> QED
    BY <2>1, Ranks DEF ClosingBelow
<1> QED
  BY <1>1, <1>2, <1>3, <1>4, <1>5, <1>6, <1>7, PTL DEF ClosingComesDown

LEMMA HeldDown ==
  ASSUME NEW h \in Shell, NEW k \in Nat, NEW n \in Nat, n = k + 1
  PROVE  Running => HeldComesDown(h, n, k)
<1>0. /\ h[1] \in Socket
      /\ StartRank(h[1]) + CloserRank(h[1]) \in Nat
      /\ StartRank(h[1])' + CloserRank(h[1])' \in Nat
  BY DEF Shell, StartRank, CloserRank
<1>1. LiveInv /\ HeldAt(h, k) /\ [Next]_vars =>
        HeldAt(h, k)' \/ HeldBelow(h, k)' \/ Closing(h)' \/ Over(h)'
  BY <1>0, HeldStep DEF HeldAt, HeldBelow
<1>2. LiveInv /\ HeldAt(h, k) /\ <<Proceed(h[1])>>_vars =>
        HeldBelow(h, k)' \/ Closing(h)' \/ Over(h)'
  <2>1. Proceed(h[1]) => [Next]_vars
    BY <1>0 DEF Next
  <2> QED
    BY <1>0, <2>1, HeldStep DEF HeldAt, HeldBelow
<1>3. LiveInv /\ HeldAt(h, k) /\ <<IdleFires(h[1])>>_vars => Closing(h)'
  <2>1. IdleFires(h[1]) => [Next]_vars
    BY <1>0 DEF Next
  <2> QED
    BY <1>0, <2>1, HeldStep DEF HeldAt, HeldBelow
<1>4. LiveInv /\ HeldAt(h, k) => IF k = 0 THEN CanIdle(h[1]) ELSE CanProceed(h[1])
  <2> SUFFICES ASSUME LiveInv, HeldAt(h, k)
               PROVE  IF k = 0 THEN CanIdle(h[1]) ELSE CanProceed(h[1])
    OBVIOUS
  <2>1. /\ backend[h[1]] = h /\ h # None /\ start[h[1]] \notin Opening
        /\ start \in [Socket -> StartPc] /\ closer \in [Socket -> Closer]
    BY <1>0, TerminalAssumption DEF HeldAt, Held, LiveInv, IInv, TypeOK, HandlersAgree
  <2>2. CASE k = 0
    <3>1. closer[h[1]].pc = "none" /\ start[h[1]] # "resizing"
      BY <1>0, <2>1, <2>2 DEF HeldAt, StartRank, CloserRank, Closer
    <3> QED
      BY <1>0, <2>1, <2>2, <3>1 DEF LiveInv, TimerArmed, CanIdle
  <2>3. CASE k # 0
    BY <1>0, <2>1, <2>3 DEF HeldAt, StartRank, CloserRank, CanProceed
  <2> QED
    BY <2>2, <2>3
<1>5. HeldBelow(h, n) => HeldAt(h, k) \/ HeldBelow(h, k)
  BY <1>0 DEF HeldAt, HeldBelow
<1>6. AllRun => HandlersRun(h[1]) /\ TimerRuns(h[1])
  BY <1>0 DEF AllRun
<1>7. CASE k = 0
  <2>1. LiveInv /\ HeldAt(h, k) => CanIdle(h[1])
    BY <1>4, <1>7
  <2> QED
    BY <2>1, <1>1, <1>3, <1>5, <1>6, PTL DEF Running, Scheduling, TimerRuns, HeldComesDown
<1>8. CASE k # 0
  <2>1. LiveInv /\ HeldAt(h, k) => CanProceed(h[1])
    BY <1>4, <1>8
  <2> QED
    BY <2>1, <1>1, <1>2, <1>5, <1>6, PTL DEF Running, Scheduling, HandlersRun, HeldComesDown
<1> QED
  BY <1>7, <1>8

\* The shell of a client that is gone, however late it was opened and whatever
\* handlers of its socket overlap, is ended, or its ending is tried: somebody
\* holds it, its timer is armed once the handlers are done, and closeSession
\* tries to end what it has taken.
THEOREM ShellsClosed == ASSUME Patient PROVE Spec /\ Scheduling => ShellsOfGoneClientsAreClosed
<1> SUFFICES ASSUME NEW h \in Shell
             PROVE  Spec /\ Scheduling =>
                      (connected[h[1]] = "gone" /\ h \in live ~> h \notin live \/ h \in abandoned)
  BY DEF ShellsOfGoneClientsAreClosed
<1>0. h[1] \in Socket
  BY DEF Shell
<1>1. Running => HeldComesDown(h, 1, 0)
  BY HeldDown
<1>2. Running => HeldComesDown(h, 2, 1)
  BY HeldDown
<1>3. Running => HeldComesDown(h, 3, 2)
  BY HeldDown
<1>4. Running => HeldComesDown(h, 4, 3)
  BY HeldDown
<1>5. Running => HeldComesDown(h, 5, 4)
  BY HeldDown
<1>6. Running => HeldComesDown(h, 6, 5)
  BY HeldDown
<1>7. Running => HeldComesDown(h, 7, 6)
  BY HeldDown
<1>8. LiveInv /\ connected[h[1]] = "gone" /\ h \in live => Over(h) \/ Closing(h) \/ HeldBelow(h, 7)
  BY <1>0, Ranks DEF LiveInv, OnlyFailedClosesLoseShells, Closing, HeldBelow, Held, Over
<1>9. ~HeldBelow(h, 0)
  BY <1>0, Ranks DEF HeldBelow
<1>10. Spec /\ Scheduling => Running
  BY TimerIsArmed, PTL DEF Spec, Running
<1>11. Running => (Closing(h) ~> Over(h))
  BY ClosingEnds
<1>12. Over(h) <=> h \notin live \/ h \in abandoned
  BY DEF Over
<1> QED
  BY <1>1, <1>2, <1>3, <1>4, <1>5, <1>6, <1>7, <1>8, <1>9, <1>10, <1>11, <1>12, PTL
     DEF Running, HeldComesDown
=============================================================================
