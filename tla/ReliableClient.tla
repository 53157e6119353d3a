--------------------------- MODULE ReliableClient ---------------------------
(***************************************************************************)
(* The client's reliable servicer (src/src/client/reliable.rs) and the     *)
(* part of the Client object that creates and uses it                      *)
(* (src/src/client/mod.rs).                                                *)
(*                                                                         *)
(* client_pc is where the code is that owns the stream: "joining" and      *)
(* "confirmed" are Client::connect on the application's thread, "spinning" *)
(* is Servicer::spin on a thread of its own.  When that code is left, for  *)
(* whatever reason, the stream is dropped.                                 *)
(***************************************************************************)
EXTENDS TcpStreams

CONSTANTS MaxChatOut,       \* bound: chat messages a client's application sends
          LowLatencyMayEnd  \* whether the low latency servicer may end first

ASSUME ClientAssumption == MaxChatOut \in Nat /\ LowLatencyMayEnd \in BOOLEAN

VARIABLES
  client_pc,     \* "idle", "joining", "confirmed", "spinning", "resting",
                 \* "leaving" (an error was returned), "ended"
  client_app,    \* "none" (no Client object yet), "up", "quit", "gone" (process ended)
  chat_in,       \* servicer -> application: chat messages
  chat_out,      \* application -> servicer: number of chat messages queued
  shutdown,      \* Client::shutdown
  taken          \* history: chat messages given to the application

reliableVars == <<client_pc, client_app, chat_in, chat_out, shutdown, taken>>

ReliableInit ==
  /\ client_pc = [p \in Clients |-> "idle"]
  /\ client_app = [p \in Clients |-> "none"]
  /\ chat_in = [p \in Clients |-> << >>]
  /\ chat_out = [p \in Clients |-> 0]
  /\ shutdown = [p \in Clients |-> FALSE]
  /\ taken = [p \in Clients |-> << >>]

-----------------------------------------------------------------------------
ClientGoes(p, pc) == client_pc' = [client_pc EXCEPT ![p] = pc]

-----------------------------------------------------------------------------
\* Client::connect, up to the join request.
Connect(p) ==
  /\ client_pc[p] = "idle"
  /\ OpenAndWrite(p, <<JoinRequest>>)
  /\ ClientGoes(p, "joining")
  /\ UNCHANGED <<client_app, chat_in, chat_out, shutdown, taken>>

\* TcpStream::connect or the write of the request fails: connect gives the error.
ConnectFails(p) ==
  /\ client_pc[p] = "idle"
  /\ ClientGoes(p, "ended")
  /\ UNCHANGED <<client_app, chat_in, chat_out, shutdown, taken, streamVars>>

Receiving(p) == client_pc[p] \in {"joining", "spinning"}

(***************************************************************************)
(* receive_server_message: no bytes mean that the stream has been closed,  *)
(* which is Exit.  connect returns the error, spin ends.  IgnoreNothing is *)
(* a variant that takes no bytes for a message that has not come yet.      *)
(***************************************************************************)
IgnoreNothing(p) ==
  /\ Receiving(p) /\ DownReadsNothing(p)
  /\ UNCHANGED <<reliableVars, streamVars>>

ReceiveNothing(p) ==
  /\ Receiving(p) /\ DownReadsNothing(p)
  /\ ClientGoes(p, "leaving")
  /\ UNCHANGED <<client_app, chat_in, chat_out, shutdown, taken, streamVars>>

\* handle_join_response, Confirmation: connect has its port and goes on.
ReceiveConfirmation(p) ==
  /\ Receiving(p)
  /\ \E id \in 0..MaxSent : ReadDown(p, Confirmation(id))
  /\ ClientGoes(p, IF client_pc[p] = "joining" THEN "confirmed" ELSE "resting")
  /\ UNCHANGED <<client_app, chat_in, chat_out, shutdown, taken>>

\* handle_join_response, AuthenticationError: Exit.
ReceiveAuthenticationError(p) ==
  /\ Receiving(p)
  /\ \E id \in 1..MaxSent : ReadDown(p, AuthenticationError(id))
  /\ ClientGoes(p, "leaving")
  /\ UNCHANGED <<client_app, chat_in, chat_out, shutdown, taken>>

(***************************************************************************)
(* handle_chat_message: to the application, or, when its queue has been    *)
(* dropped by quit, a Drop that ends spin.                                 *)
(***************************************************************************)
ReceiveChat(p) ==
  /\ Receiving(p)
  /\ \E id \in 1..MaxSent : ReadDown(p, ServerChat(id)) /\
       IF client_app[p] = "quit"
       THEN ClientGoes(p, "leaving") /\ UNCHANGED chat_in
       ELSE /\ ClientGoes(p, IF client_pc[p] = "joining" THEN "joining" ELSE "resting")
            /\ chat_in' = [chat_in EXCEPT ![p] = Append(@, id)]
  /\ UNCHANGED <<client_app, chat_out, shutdown, taken>>

(***************************************************************************)
(* The sleep of spin subtracts the deadline from the present time.  While  *)
(* the deadline is ahead that panics or gives zero, as the version of the  *)
(* standard library has it: the thread goes on or ends.                    *)
(***************************************************************************)
Rest(p) ==
  /\ client_pc[p] = "resting"
  /\ ClientGoes(p, "spinning") \/ ClientGoes(p, "leaving")
  /\ UNCHANGED <<client_app, chat_in, chat_out, shutdown, taken, streamVars>>

\* The servicer is dropped, and with it the stream and its ends of the queues.
DropServicer(p) ==
  /\ client_pc[p] = "leaving"
  /\ ClientGoes(p, "ended")
  /\ CloseClientEnd(p)
  /\ UNCHANGED <<client_app, chat_in, chat_out, shutdown, taken>>

\* Client::connect after the join: the low latency servicer is connected and
\* the threads are started, or that fails and connect gives the error.
SpawnServicers(p) ==
  /\ client_pc[p] = "confirmed"
  /\ \/ /\ ClientGoes(p, "spinning")
        /\ client_app' = [client_app EXCEPT ![p] = "up"]
     \/ ClientGoes(p, "leaving") /\ UNCHANGED client_app
  /\ UNCHANGED <<chat_in, chat_out, shutdown, taken, streamVars>>

-----------------------------------------------------------------------------
(***************************************************************************)
(* Client::send_chat_message.  The servicer never looks into the queue; it *)
(* is disconnected when the servicer has ended.                            *)
(***************************************************************************)
SendChatMessage(p) ==
  /\ client_app[p] = "up" /\ ~shutdown[p]
  /\ IF client_pc[p] = "ended"
     THEN shutdown' = [shutdown EXCEPT ![p] = TRUE] /\ UNCHANGED chat_out
     ELSE /\ chat_out[p] < MaxChatOut
          /\ chat_out' = [chat_out EXCEPT ![p] = @ + 1]
          /\ UNCHANGED shutdown
  /\ UNCHANGED <<client_pc, client_app, chat_in, taken, streamVars>>

(***************************************************************************)
(* Client::take_chat_history.  A disconnected queue is an error even when  *)
(* messages were left in it, and those are lost.                           *)
(***************************************************************************)
TakeChatHistory(p) ==
  /\ client_app[p] = "up" /\ ~shutdown[p]
  /\ IF client_pc[p] = "ended"
     THEN shutdown' = [shutdown EXCEPT ![p] = TRUE] /\ UNCHANGED taken
     ELSE taken' = [taken EXCEPT ![p] = @ \o chat_in[p]] /\ UNCHANGED shutdown
  /\ chat_in' = [chat_in EXCEPT ![p] = << >>]
  /\ UNCHANGED <<client_pc, client_app, chat_out, streamVars>>

\* A low latency call finds its servicer gone and sets the flag both halves share.
LowLatencyShutdown(p) ==
  /\ LowLatencyMayEnd /\ client_app[p] = "up" /\ ~shutdown[p]
  /\ shutdown' = [shutdown EXCEPT ![p] = TRUE]
  /\ UNCHANGED <<client_pc, client_app, chat_in, chat_out, taken, streamVars>>

\* Client::quit drops both reliable queues; the servicer only ever uses one.
Quit(p) ==
  /\ client_app[p] = "up"
  /\ client_app' = [client_app EXCEPT ![p] = "quit"]
  /\ chat_in' = [chat_in EXCEPT ![p] = << >>]
  /\ UNCHANGED <<client_pc, chat_out, shutdown, taken, streamVars>>

\* The client's process ends or crashes, and the stream with it.
ClientProcessEnds(p) ==
  /\ client_pc[p] \notin {"idle", "ended"}
  /\ ClientGoes(p, "ended")
  /\ client_app' = [client_app EXCEPT ![p] = "gone"]
  /\ chat_in' = [chat_in EXCEPT ![p] = << >>]
  /\ CloseClientEnd(p)
  /\ UNCHANGED <<chat_out, shutdown, taken>>

-----------------------------------------------------------------------------
ReceiveServerMessage(p) ==
  \/ ReceiveNothing(p) \/ ReceiveConfirmation(p)
  \/ ReceiveAuthenticationError(p) \/ ReceiveChat(p)

ReliableClientApp(p) ==
  SendChatMessage(p) \/ TakeChatHistory(p) \/ LowLatencyShutdown(p) \/ Quit(p)
=============================================================================
