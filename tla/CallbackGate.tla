---------------------------- MODULE CallbackGate ----------------------------
(* What a device of the adaptation layer promises to the clients whose     *)
(* callbacks it runs (am_dmx.h): a client that has stopped its filter and  *)
(* has then passed the barrier (AM_DMX_Sync) sees no further callback      *)
(* until it starts a filter again.  Callbacks run one at a time.           *)
EXTENDS Naturals

CONSTANTS
    Clients,   \* the clients, each with its callback
    NoClient   \* no callback is running

VARIABLES
    gate,      \* "shut": no callback may run; "open": data is delivered;
               \* "closing": stopped, a late callback may still run
    running    \* the client whose callback is running

gateVars == <<gate, running>>

GateTypeOK == /\ gate \in [Clients -> {"shut", "open", "closing"}]
              /\ running \in Clients \cup {NoClient}

GateInit == /\ gate = [c \in Clients |-> "shut"]
            /\ running = NoClient

\* Start delivering to a client.
Start(c) == /\ gate' = [gate EXCEPT ![c] = "open"]
            /\ UNCHANGED running

\* Stop delivering to some clients (the last close stops everybody's filters).
Stop(S) == /\ \A c \in S : gate[c] = "open"
           /\ gate' = [c \in Clients |-> IF c \in S THEN "closing" ELSE gate[c]]
           /\ UNCHANGED running

\* The barrier: passed only when the client's callback is not running.
Barrier(c) == /\ gate[c] = "closing"
              /\ running # c
              /\ gate' = [gate EXCEPT ![c] = "shut"]
              /\ UNCHANGED running

Run(c) == /\ gate[c] # "shut"
          /\ running = NoClient
          /\ running' = c
          /\ UNCHANGED gate

Return == /\ running # NoClient
          /\ running' = NoClient
          /\ UNCHANGED gate

GateNext == \/ \E c \in Clients : Start(c) \/ Barrier(c) \/ Run(c)
            \/ \E S \in SUBSET Clients : Stop(S)
            \/ Return

GateSpec == GateInit /\ [][GateNext]_gateVars

\* The promise in one line: no callback of a client whose gate is shut.
NoCallbackWhenShut == running # NoClient => gate[running] # "shut"
=============================================================================
