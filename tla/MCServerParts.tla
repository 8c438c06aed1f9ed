---------------------------- MODULE MCServerParts ----------------------------
(***************************************************************************)
(* Model checking of three parts of the server of which something must     *)
(* come to an end: the protocol of events with its transactions, the       *)
(* bridges of a meeting, and the screening from draft to report.           *)
(*                                                                         *)
(* The parts share no state. part says which one a behaviour is about, the *)
(* others stay as they are at the start, so the reachable states are the   *)
(* sum of theirs and one run of TLC explores them all.                     *)
(***************************************************************************)
EXTENDS HrProtocol, ScreeningBridge

(* Those of ScreeningPipeline.                                             *)
CONSTANTS Requests, Sweeper, Jobs, Texts, Live
VARIABLES status, consent, ended, audio, age, transcript, report, notices, pending, job

VARIABLE part

Screening == INSTANCE ScreeningPipeline

Parts == {"protocol", "bridges", "screening"}
screeningVars == <<status, consent, ended, audio, age, transcript, report, notices, pending, job>>
serverVars == <<part, protocolVars, handoverVars, screeningVars>>

ServerInit ==
  /\ part \in Parts
  /\ ProtocolInit /\ BridgeInit /\ Screening!Init

ServerNext ==
  /\ UNCHANGED part
  /\ \/ part = "protocol" /\ ProtocolNext /\ UNCHANGED <<handoverVars, screeningVars>>
     \/ part = "bridges" /\ BridgeNext /\ UNCHANGED <<protocolVars, screeningVars>>
     \/ part = "screening" /\ Screening!Next /\ UNCHANGED <<protocolVars, handoverVars>>

(* Fairness, in the behaviours about the part: a transaction that          *)
(* can go on again and again does at last (locks are queued), Postgres     *)
(* looks for deadlocks, the event loop runs coroutines and timers, sockets *)
(* that were told to close do; the sweeper as in ScreeningPipeline. Nobody *)
(* has to begin, to connect or to stop anything.                           *)
ServerFairness ==
  /\ \A t \in Txs : SF_protocolVars(part = "protocol" /\ GoesOn(t))
                    /\ WF_protocolVars(part = "protocol" /\ DeadlockDetected(t))
  /\ \A c \in Conns : WF_handoverVars(part = "bridges" /\ Proceeds(c))
  /\ \A b \in Bridges : WF_handoverVars(part = "bridges" /\ Linger(b))
  /\ Screening!Fairness

ServerSpec == ServerInit /\ [][ServerNext]_serverVars
FairServerSpec == ServerSpec /\ ServerFairness
-----------------------------------------------------------------------------
(* Nothing waits for ever: no transaction for a lock, no open bridge for a *)
(* connection to serve with, no session for the end of its meeting or of   *)
(* its processing.                                                         *)
ServerPartsEnd == TransactionsEnd /\ NoBridgeIsStranded /\ Screening!SessionsAreResolved
=============================================================================
