------------------------------ MODULE Gunrock -------------------------------
(***************************************************************************)
(* The server loop: one thread accepts a connection, reads its request,    *)
(* lets a service answer it, writes the answer and closes, and only then   *)
(* accepts the next.  What a service does is DistributedFileSystemService; *)
(* here it is the status it may leave.                                     *)
(***************************************************************************)
EXTENDS HTTPRequest

CONSTANTS MaxFds,      \* descriptors the process has for connections and files
          StorePrefix  \* the token "/ds3/" a path may begin with

ASSUME GunrockAssumption == MaxFds \in Nat \ {0} /\ StorePrefix \in Tokens

VARIABLES
  phase,    \* where main() is
  open,     \* how many client descriptors are open
  lost,     \* history: connections given up because reading failed
  status    \* of the response

loopVars == <<phase, open, lost, status>>
gunrockVars == <<sent, at, idx, off, http, phase, open, lost, status>>

Ended == 0   \* not a status: the method ends the process

\* main() before its loop.  No request is being read; which one sent holds does
\* not matter then.
Start == phase = "accept" /\ open = 0 /\ lost = 0 /\ status = 200

GunrockInit == Start /\ \E m \in Requests : Begin(m)

----------------------------------------------------------------------------
\* A mutant of FindService: the prefix is found anywhere in the path.
FindServiceInside(path) ==
  IF path = <<>> THEN "none"
  ELSE IF \E i \in DOMAIN path : path[i] = StorePrefix THEN "store" ELSE "files"

\* The first service whose prefix the path has; no path, no service.
FindService(path) ==
  IF path = <<>> THEN "none" ELSE IF Head(path) = StorePrefix THEN "store" ELSE "files"

\* HttpService: the methods a service does not override throw.
Refused == {405}

\* FileService opens a file of the host; one it cannot open is not found.
FilesOutcomes(method) ==
  IF method \notin {"GET", "HEAD"} THEN Refused
  ELSE IF open < MaxFds THEN {200, 404} ELSE {404}

\* The store opens its image for every block, and exits if it cannot.
StoreOutcomes(method) ==
  CASE method \notin {"GET", "PUT", "DELETE"} -> Refused
    [] open = MaxFds                        -> {Ended}
    [] OTHER ->
         CASE method = "GET"    -> {200, 404}
           [] method = "PUT"    -> {200, 409, Ended}
           [] method = "DELETE" -> {200, 404, 409, Ended}

\* What the service's method leaves as status; no method is for CONNECT.
Outcomes(service, method) ==
  CASE service = "none"    -> {404}
    [] method = "CONNECT"  -> {501}
    [] service = "files"   -> FilesOutcomes(method)
    [] service = "store"   -> StoreOutcomes(method)

----------------------------------------------------------------------------
Down == phase' = "down" /\ UNCHANGED status

Accept ==
  /\ phase = "accept" /\ open < MaxFds
  /\ phase' = "read" /\ open' = open + 1 /\ status' = 200
  /\ \E m \in Requests : /\ sent' = m /\ at' = "start" /\ idx' = 1 /\ off' = 0
                         /\ http' = NewHTTP
  /\ UNCHANGED lost

\* accept() throws, and nothing catches it.
AcceptFails ==
  /\ phase = "accept" /\ open = MaxFds
  /\ Down /\ UNCHANGED <<httpVars, open, lost>>

ReadRequest ==
  /\ phase = "read" /\ ParserStep
  /\ phase' = CASE at' = "read"   -> "invoke"
                [] at' = "failed" -> "down"
                [] OTHER          -> "read"
  /\ UNCHANGED <<open, lost, status>>

\* read() throws because the client has gone; handle_request returns without
\* closing or deleting the socket.
ReadFails ==
  /\ phase = "read" /\ MayRead
  /\ phase' = "accept" /\ lost' = lost + 1
  /\ UNCHANGED <<httpVars, open, status>>

Invoke ==
  /\ phase = "invoke"
  /\ \E s \in Outcomes(FindService(http.path), sent.method) :
       IF s = Ended THEN Down ELSE phase' = "write" /\ status' = s
  /\ UNCHANGED <<httpVars, open, lost>>

\* A mutant of WriteResponse: the socket stays open.
WriteResponseOnly ==
  /\ phase = "write"
  /\ phase' = "accept"
  /\ UNCHANGED <<httpVars, open, lost, status>>

WriteResponse ==
  /\ phase = "write"
  /\ phase' = "accept" /\ open' = open - 1
  /\ UNCHANGED <<httpVars, lost, status>>

\* The client does not take the answer; write() throws and nothing catches it.
WriteFails ==
  /\ phase = "write"
  /\ Down /\ UNCHANGED <<httpVars, open, lost>>

\* The process has ended and its descriptors with it.  The operator starts it
\* again.
Restart ==
  /\ phase = "down"
  /\ phase' = "accept" /\ open' = 0 /\ lost' = 0 /\ status' = 200
  /\ UNCHANGED httpVars

GunrockNext ==
  \/ Accept \/ AcceptFails \/ ReadRequest \/ ReadFails
  \/ Invoke \/ WriteResponse \/ WriteFails \/ Restart

GunrockSpec == GunrockInit /\ [][GunrockNext]_gunrockVars

\* The thread goes on, and so does the client it serves: it sends the rest of
\* its request, unless it hangs up.  There is no timeout, so without that the
\* server waits for it, and every other client with it.
GunrockFairSpec ==
  /\ GunrockSpec
  /\ WF_gunrockVars(ReadRequest) /\ WF_gunrockVars(Invoke)
  /\ WF_gunrockVars(WriteResponse \/ WriteFails)

----------------------------------------------------------------------------
\* The values the variables can have.
GunrockTypeOK ==
  /\ phase \in {"accept", "read", "invoke", "write", "down"}
  /\ open \in 0 .. MaxFds /\ lost \in 0 .. MaxFds
  /\ status \in {200, 404, 405, 409, 501}
  /\ sent \in Requests
  /\ at \in {"start", "path", "name", "value", "end", "body", "complete", "onRead",
             "read", "failed"}
  /\ http.state \in {"INIT", "HEADER", "FIELD", "VALUE", "DONE"}

\* Every open descriptor belongs to the connection being served or to one that
\* was given up while it was read: an answered connection is closed, a second
\* one is never open beside it.
DescriptorsAccounted ==
  phase # "down" =>
    open = lost + (IF phase \in {"read", "invoke", "write"} THEN 1 ELSE 0)

\* A PUT or DELETE is answered with success only if its client has sent it for
\* a path of the store, however its request arrived.
SuccessIsForTheStore ==
  phase = "write" /\ status = 200 /\ sent.method \in {"PUT", "DELETE"} =>
    sent.path # <<>> /\ Head(sent.path) = StorePrefix

\* The messages for which the assertions of reading end the server.
Fatal(m) == m.fields = <<>> \/ m.method \notin Methods \/ m.method = "CONNECT" \/ m.behind

\* As long as descriptors are left for a connection and the image, the server
\* ends only in an assertion about such a message, in a PUT or DELETE of the
\* store, or because its client has gone when the answer is written: no other
\* request brings it down, wherever it is cut.
ServerStays ==
  [][phase # "down" /\ phase' = "down" /\ lost < MaxFds - 1 =>
       \/ phase = "read" /\ Fatal(sent)
       \/ /\ phase = "invoke" /\ FindService(sent.path) = "store"
          /\ sent.method \in {"PUT", "DELETE"}
       \/ phase = "write"]_gunrockVars

\* A client that goes on sending does not keep the server for ever: its request
\* comes to an end, wherever it is cut, and so does its answer.
ClientsLeave == phase = "read" ~> phase \in {"accept", "down"}
=============================================================================
