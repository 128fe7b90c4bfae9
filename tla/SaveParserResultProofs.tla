----------------------- MODULE SaveParserResultProofs -----------------------
(***************************************************************************)
(* Theorems about SaveParserResult, for any number of runs of the script   *)
(* and any number of sessions the server has room for.                     *)
(***************************************************************************)
EXTENDS SaveParserResult, FiniteSetTheorems, TLAPS

\* A run that has come past the connection has had a session.
Past == {"isClosed", "createStatement", "execute", "close", "returned"}
Connected == \A r \in Run : at[r] \in Past => session[r] # "none"

IInv == TypeOK /\ Connected /\ OrphansAreReported

-----------------------------------------------------------------------------
\* The types without the server's limit.
Typed ==
  /\ at \in [Run -> {"forName", "getConnection", "isClosed", "createStatement",
                     "execute", "close"} \cup Over]
  /\ session \in [Run -> {"none", "open", "ended"}]
  /\ said \in SUBSET Run

\* One session more counts one more, and none is counted twice.
LEMMA RoomForOne ==
  ASSUME Typed, NEW r \in Run, Cardinality(Sessions) < MaxSessions,
         session' = [session EXCEPT ![r] = "open"]
  PROVE  Cardinality(Sessions') <= MaxSessions
<1>1. IsFiniteSet(Sessions)
  BY SaveParserResultAssumption, FS_Subset DEF Sessions
<1>2. Sessions' = Sessions \cup {r}
  BY DEF Sessions, Typed
<1>3. Cardinality(Sessions) \in Nat
  BY <1>1, FS_CardinalityType
<1>4. Cardinality(Sessions \cup {r}) =
        IF r \in Sessions THEN Cardinality(Sessions) ELSE Cardinality(Sessions) + 1
  BY <1>1, FS_AddElement
<1>5. MaxSessions \in Nat
  BY SaveParserResultAssumption
<1> HIDE DEF Sessions
<1>6. Cardinality(Sessions \cup {r}) <= MaxSessions
  BY <1>3, <1>4, <1>5
<1> QED BY <1>2, <1>6

\* No session more: the limit is kept.
LEMMA NoMoreSessions ==
  ASSUME Cardinality(Sessions) <= MaxSessions, Sessions' \subseteq Sessions
  PROVE  Cardinality(Sessions') <= MaxSessions
<1>1. IsFiniteSet(Sessions)
  BY SaveParserResultAssumption, FS_Subset DEF Sessions
<1>2. /\ Cardinality(Sessions') <= Cardinality(Sessions)
      /\ Cardinality(Sessions) \in Nat /\ Cardinality(Sessions') \in Nat
  BY <1>1, FS_Subset, FS_CardinalityType
<1> QED BY <1>2, SaveParserResultAssumption

LEMMA InitIInv == Init => IInv
<1> SUFFICES ASSUME Init PROVE IInv
  OBVIOUS
<1>1. Sessions = {}
  BY DEF Init, Sessions
<1>2. Cardinality(Sessions) <= MaxSessions
  BY <1>1, FS_EmptySet, SaveParserResultAssumption
<1> QED BY <1>1, <1>2 DEF Init, IInv, TypeOK, Connected, OrphansAreReported, Past, Over

LEMMA StepIInv ==
  ASSUME IInv, [Next]_vars
  PROVE  IInv'
<1> USE DEF IInv, Connected, OrphansAreReported, Past
<1>1. Typed /\ Cardinality(Sessions) <= MaxSessions /\ \A r \in said : session[r] # "none"
  BY DEF TypeOK, Typed
<1>2. ASSUME NEW r \in Run, ForName(r) PROVE IInv'
  BY <1>1, <1>2 DEF ForName, Go, TypeOK, Typed, Sessions, Over
<1>3. ASSUME NEW r \in Run, GetConnection(r) PROVE IInv'
  <2>1. Cardinality(Sessions') <= MaxSessions
    BY <1>1, <1>3, RoomForOne DEF GetConnection
  <2> QED BY <1>1, <1>3, <2>1 DEF GetConnection, Go, TypeOK, Typed, Sessions, Over
<1>4. ASSUME NEW r \in Run, IsClosed(r) PROVE IInv'
  BY <1>1, <1>4 DEF IsClosed, Go, TypeOK, Typed, Sessions, Over
<1>5. ASSUME NEW r \in Run, CreateStatement(r) PROVE IInv'
  BY <1>1, <1>5 DEF CreateStatement, Go, TypeOK, Typed, Sessions, Over
<1>6. ASSUME NEW r \in Run, Execute(r) PROVE IInv'
  BY <1>1, <1>6 DEF Execute, Go, TypeOK, Typed, Sessions, Over
<1>7. ASSUME NEW r \in Run, Ends(r), UNCHANGED said PROVE Sessions' \subseteq Sessions
  BY <1>1, <1>7 DEF Ends, Typed, Sessions
<1>8. ASSUME NEW r \in Run, Close(r) PROVE IInv'
  <2>1. Cardinality(Sessions') <= MaxSessions
    BY <1>1, <1>7, <1>8, NoMoreSessions DEF Close
  <2> QED BY <1>1, <1>8, <2>1 DEF Close, Go, Ends, TypeOK, Typed, Sessions, Over
<1>9. ASSUME NEW r \in Run, Throws(r) PROVE IInv'
  BY <1>1, <1>9 DEF Throws, TypeOK, Typed, Sessions, Over
<1>10. ASSUME NEW r \in Run, SocketCloses(r) \/ Drop(r) PROVE IInv'
  <2>1. Ends(r) /\ UNCHANGED <<at, said>>
    BY <1>10 DEF SocketCloses, Drop
  <2>2. Cardinality(Sessions') <= MaxSessions
    BY <1>1, <1>7, <2>1, NoMoreSessions
  <2> QED BY <1>1, <2>1, <2>2 DEF Ends, TypeOK, Typed, Sessions, Over
<1>11. CASE UNCHANGED vars
  BY <1>1, <1>11 DEF vars, TypeOK, Typed, Sessions, Over
<1> QED BY <1>2, <1>3, <1>4, <1>5, <1>6, <1>8, <1>9, <1>10, <1>11 DEF Next, Main, Finished

-----------------------------------------------------------------------------
\* The inductive invariant holds in every reachable state.
LEMMA Inductive == Spec => []IInv
BY InitIInv, StepIInv, PTL DEF Spec

(* However many runs of SaveParserResult.main there are, the server never   *)
(* holds more sessions than it has room for, and no run says that it is     *)
(* connected before it has had a session.                                   *)
THEOREM TypeCorrect == Spec => []TypeOK
<1>1. IInv => TypeOK
  BY DEF IInv
<1> QED BY <1>1, Inductive, PTL

(* A session is open only for a run that is not over, or that has ended     *)
(* with the stack trace of an exception: a return has closed it.            *)
THEOREM OrphansReported == Spec => []OrphansAreReported
<1>1. IInv => OrphansAreReported
  BY DEF IInv
<1> QED BY <1>1, Inductive, PTL
=============================================================================
