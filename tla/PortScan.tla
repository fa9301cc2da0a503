------------------------------ MODULE PortScan ------------------------------
(***************************************************************************)
(* Source ports: the scan of src/steering.js for a free port of the range, *)
(* as the lazy bind and the rebinds of src/client.js use it.  Each attempt *)
(* to bind is a step of its own (the scan awaits it), so that other        *)
(* programs, and other clients, take and free ports while a scan runs.     *)
(*                                                                         *)
(* Definitions named X_Something are slips one could make in X; no action  *)
(* uses them.  They exist to see that the properties would notice.         *)
(***************************************************************************)
EXTENDS Integers, FiniteSets

CONSTANTS Clients,               \* the clients of this host
          PortMin, PortMax,      \* STEERING_PORT_MIN, STEERING_PORT_MAX
          None

ASSUME PortsAssumption == /\ PortMin \in Nat /\ PortMax \in Nat
                          /\ 1 <= PortMin /\ PortMin <= PortMax
                          /\ None \notin Int

Ports == PortMin..PortMax
PortCount == PortMax - PortMin + 1

VARIABLES
  taken,              \* ports other programs hold
  held,               \* the port of each client's current transport
  nextPorts,          \* _nextSteeringPorts.get('udp4')
  scanning,           \* the clients whose scan is outstanding
  candidate,          \* the port a scan tries next
  tries,              \* how many it has tried
  tried,              \* which ones it has found occupied
  gone                \* destroyed clients

vars == <<taken, held, nextPorts, scanning, candidate, tries, tried, gone>>
scanVars == <<candidate, tries, tried>>

-----------------------------------------------------------------------------

NextSteeringPort_PastTheEnd(port) == IF port < PortMin \/ port > PortMax THEN PortMin ELSE port + 1

\* nextSteeringPort(): the next port of the range, which is a ring.
NextSteeringPort(port) == IF port < PortMin \/ port >= PortMax THEN PortMin ELSE port + 1

\* startPort of a bind: where the last one left off.
StartPort(c) ==
  IF nextPorts[c] # None THEN nextPorts[c]
  ELSE IF held[c] # None THEN NextSteeringPort(held[c])
  ELSE PortMin

\* The first candidate of bindNextSteeringSocket.
FirstCandidate(port) == IF port \in Ports THEN port ELSE PortMin

\* Binding p would give EADDRINUSE: somebody has it, perhaps c itself, whose
\* old socket is open until the new one is there.
Occupied(p) == p \in taken \/ \E c \in Clients : held[c] = p

-----------------------------------------------------------------------------

Init ==
  /\ taken \in SUBSET Ports
  /\ held = [c \in Clients |-> None]
  /\ nextPorts = [c \in Clients |-> None]
  /\ scanning = {}
  /\ candidate = [c \in Clients |-> None]
  /\ tries = [c \in Clients |-> 0]
  /\ tried = [c \in Clients |-> {}]
  /\ gone = {}

\* A call needs a first transport, or advice replaces the transport.
StartScan(c) ==
  /\ c \notin gone \union scanning
  /\ scanning' = scanning \union {c}
  /\ candidate' = [candidate EXCEPT ![c] = FirstCandidate(StartPort(c))]
  /\ tries' = [tries EXCEPT ![c] = 0]
  /\ tried' = [tried EXCEPT ![c] = {}]
  /\ UNCHANGED <<taken, held, nextPorts, gone>>

EndScan(c) == /\ scanning' = scanning \ {c}
              /\ candidate' = [candidate EXCEPT ![c] = None]
              /\ UNCHANGED <<tries, tried>>

NextPortAfter_Same(p) == p

NextPortAfter(p) == NextSteeringPort(p)

\* The candidate binds: it becomes the port of the client's transport, and the
\* port it had is free.  A client destroyed meanwhile closes the new socket.
Bound(c) ==
  /\ c \in scanning
  /\ tries[c] < PortCount
  /\ ~Occupied(candidate[c])
  /\ IF c \in gone
     THEN UNCHANGED <<held, nextPorts>>
     ELSE /\ held' = [held EXCEPT ![c] = candidate[c]]
          /\ nextPorts' = [nextPorts EXCEPT ![c] = NextPortAfter(candidate[c])]
  /\ EndScan(c)
  /\ UNCHANGED <<taken, gone>>

\* The candidate is occupied: on to the next one.
Skip(c) ==
  /\ c \in scanning
  /\ tries[c] < PortCount
  /\ Occupied(candidate[c])
  /\ tried' = [tried EXCEPT ![c] = @ \union {candidate[c]}]
  /\ tries' = [tries EXCEPT ![c] = @ + 1]
  /\ candidate' = [candidate EXCEPT ![c] = NextSteeringPort(@)]
  /\ UNCHANGED <<taken, held, nextPorts, scanning, gone>>

\* Any other error of bind() ends the scan: an old transport stays.
BindError(c) ==
  /\ c \in scanning
  /\ tries[c] < PortCount
  /\ EndScan(c)
  /\ UNCHANGED <<taken, held, nextPorts, gone>>

Exhausted_OneEarly(c) == tries[c] >= PortCount - 1

Exhausted_Never(c) == FALSE

\* The loop over the range has run out.
Exhausted(c) == tries[c] >= PortCount

\* No port of the range was available.
ScanFails(c) ==
  /\ c \in scanning
  /\ Exhausted(c)
  /\ EndScan(c)
  /\ UNCHANGED <<taken, held, nextPorts, gone>>

\* destroy() closes the transport; a scan goes on.
Destroy(c) ==
  /\ c \notin gone
  /\ gone' = gone \union {c}
  /\ held' = [held EXCEPT ![c] = None]
  /\ UNCHANGED <<taken, nextPorts, scanning, scanVars>>

\* Other programs take a port that is free, and free their ports.
OthersTake(p) == /\ ~Occupied(p)
                 /\ taken' = taken \union {p}
                 /\ UNCHANGED <<held, nextPorts, scanning, scanVars, gone>>
OthersFree(p) == /\ p \in taken
                 /\ taken' = taken \ {p}
                 /\ UNCHANGED <<held, nextPorts, scanning, scanVars, gone>>

Scan(c) == Bound(c) \/ Skip(c) \/ BindError(c) \/ ScanFails(c)

Next == \/ \E c \in Clients : StartScan(c) \/ Scan(c) \/ Destroy(c)
        \/ \E p \in Ports : OthersTake(p) \/ OthersFree(p)

Spec == Init /\ [][Next]_vars

\* Every bind() is answered.
FairSpec == Spec /\ \A c \in Clients : WF_vars(Scan(c))

-----------------------------------------------------------------------------

TypeOK ==
  /\ taken \subseteq Ports
  /\ held \in [Clients -> Ports \union {None}]
  /\ nextPorts \in [Clients -> Ports \union {None}]
  /\ scanning \subseteq Clients
  /\ candidate \in [Clients -> Ports \union {None}]
  /\ tries \in [Clients -> 0..PortCount]
  /\ tried \in [Clients -> SUBSET Ports]
  /\ gone \subseteq Clients

\* A scan that gives up has found every port of the range occupied once:
\* wherever in the ring it began, it leaves none out and tries none twice.
NoneIsLeftOut ==
  \A c \in scanning : /\ Cardinality(tried[c]) = tries[c]
                      /\ Exhausted(c) => tried[c] = Ports

\* A rebind tries every other port before the one in use: it goes back to the
\* port the server advised against only after a whole turn, and finds it
\* occupied by its own old socket.
OwnPortLast ==
  \A c \in scanning : held[c] \in tried[c] => tried[c] = Ports

\* Every scan ends, though ports come and go while it runs.
ScanEnds == \A c \in Clients : c \in scanning ~> c \notin scanning
=============================================================================
