-------------------------- MODULE SaveParserResult --------------------------
(***************************************************************************)
(* SaveParserResult.main: it loads the driver, connects to the database,   *)
(* makes a statement, runs one query and closes the connection, without a  *)
(* handler: whatever throws ends the program, and the connection is left   *)
(* to the end of the virtual machine.  The script is started by hand, any  *)
(* number of times and at once; what its runs share is the server, which   *)
(* has room for so many sessions and may drop one at any time.             *)
(***************************************************************************)
EXTENDS Naturals, FiniteSets

CONSTANTS
  Run,         \* the runs of the script
  MaxSessions  \* the sessions the server has room for

ASSUME SaveParserResultAssumption ==
  IsFiniteSet(Run) /\ MaxSessions \in Nat \ {0}

VARIABLES
  at,       \* at[r]: the next call of main, or how run r has ended
  session,  \* session[r]: the server's session for the connection of r
  said      \* the runs that have said that they are connected

vars == <<at, session, said>>

Over == {"returned", "thrown"}
Sessions == {r \in Run : session[r] = "open"}

Init ==
  /\ at = [r \in Run |-> "forName"]
  /\ session = [r \in Run |-> "none"]
  /\ said = {}

Go(r, from, to) == at[r] = from /\ at' = [at EXCEPT ![r] = to]
Ends(r) == session' = [session EXCEPT ![r] = "ended"]

-----------------------------------------------------------------------------
(* The script.                                                             *)

\* Mutant: the message comes before the connection.
ForNameSays(r) ==
  /\ Go(r, "forName", "getConnection")
  /\ said' = said \cup {r}
  /\ UNCHANGED session

ForName(r) == Go(r, "forName", "getConnection") /\ UNCHANGED <<session, said>>

GetConnection(r) ==
  /\ Cardinality(Sessions) < MaxSessions
  /\ Go(r, "getConnection", "isClosed")
  /\ session' = [session EXCEPT ![r] = "open"]
  /\ UNCHANGED said

\* isClosed tells whether close has been called, not whether the server is there.
IsClosed(r) ==
  /\ Go(r, "isClosed", "createStatement")
  /\ said' = said \cup {r}
  /\ UNCHANGED session

CreateStatement(r) == Go(r, "createStatement", "execute") /\ UNCHANGED <<session, said>>

\* "select * from emp" changes nothing in the database.
Execute(r) ==
  /\ session[r] = "open"
  /\ Go(r, "execute", "close")
  /\ UNCHANGED <<session, said>>

\* Mutant: the connection is not closed.
CloseForgotten(r) == Go(r, "close", "returned") /\ UNCHANGED <<session, said>>

\* A connection whose session the server has dropped is closed without complaint.
Close(r) == Go(r, "close", "returned") /\ Ends(r) /\ UNCHANGED said

\* Mutant: the statement is tried again.
ThrowsRetries(r) ==
  /\ \/ Go(r, "execute", "createStatement")
     \/ at[r] \notin Over \cup {"execute"} /\ at' = [at EXCEPT ![r] = "thrown"]
  /\ UNCHANGED <<session, said>>

\* Any call may throw; nothing catches, and nothing is closed.
Throws(r) ==
  /\ at[r] \notin Over
  /\ at' = [at EXCEPT ![r] = "thrown"]
  /\ UNCHANGED <<session, said>>

Main(r) ==
  \/ ForName(r) \/ GetConnection(r) \/ IsClosed(r) \/ CreateStatement(r)
  \/ Execute(r) \/ Close(r) \/ Throws(r)

-----------------------------------------------------------------------------
(* The virtual machine and the server.                                     *)

\* The end of the virtual machine closes the socket, and the server sees it.
SocketCloses(r) ==
  /\ at[r] \in Over /\ session[r] = "open"
  /\ Ends(r)
  /\ UNCHANGED <<at, said>>

\* A restart of the server, or its time limit for idle sessions.
Drop(r) ==
  /\ session[r] = "open"
  /\ Ends(r)
  /\ UNCHANGED <<at, said>>

Finished == (\A r \in Run : at[r] \in Over) /\ Sessions = {} /\ UNCHANGED vars

Next == (\E r \in Run : Main(r) \/ SocketCloses(r) \/ Drop(r)) \/ Finished

Spec == Init /\ [][Next]_vars

\* Every run goes on, and the server answers it or lets it fail; it need not
\* drop anything of itself.
FairSpec == Spec /\ \A r \in Run : WF_vars(Main(r)) /\ WF_vars(SocketCloses(r))

-----------------------------------------------------------------------------
(* Properties.                                                             *)

\* Types; the server's limit; whoever was told of a connection has had one.
TypeOK ==
  /\ at \in [Run -> {"forName", "getConnection", "isClosed", "createStatement",
                     "execute", "close"} \cup Over]
  /\ session \in [Run -> {"none", "open", "ended"}]
  /\ said \in SUBSET Run /\ \A r \in said : session[r] # "none"
  /\ Cardinality(Sessions) <= MaxSessions

(* A session that outlives its script is one whose script has ended with  *)
(* an exception, so that there is a stack trace for it: the one path from  *)
(* the connection to a return goes through close (SaveParserResult.java    *)
(* 43-53).                                                                 *)
OrphansAreReported == \A r \in Sessions : at[r] # "returned"

(* No handler and no "finally" closes the connection; still no session     *)
(* stays for ever, and runs that threw do not use up the server.           *)
SessionsEnd == \A r \in Run : session[r] = "open" ~> session[r] = "ended"

=============================================================================
