----------------------------- MODULE Requestor ------------------------------
(***************************************************************************)
(* Request and answer in a client process: the three Call forms of         *)
(* RpcCaller (source/client/RpcCaller.hpp) over Requestor (source/client/  *)
(* Requestor.hpp), against an RpcServer that answers each request once     *)
(* (source/server/RpcRouter.hpp).                                          *)
(*                                                                         *)
(* User threads insert a request's describe and send it; the IO thread     *)
(* looks the describe up, completes it and erases it in three steps, with  *)
(* Requestor::_mutex released in between.                                  *)
(***************************************************************************)
EXTENDS Naturals, Sequences

CONSTANTS
  Thread, \* user threads
  Rid,    \* bound: calls ever made; each has its own identifier (Uuid)
  NoRid   \* a thread that makes no call, an IO thread that handles no answer

ASSUME RequestorAssumption == NoRid \notin Rid

VARIABLES
  linked,   \* MuduoClient::_conn is set
  form,     \* which Call a request was made with
  describe, \* _request_desc: the rtype of a describe, "none" when there is none
  pc,       \* where a user thread is in its Call
  current,  \* the request of that Call
  toServer, \* requests on their way
  toClient, \* answers on their way, FIFO
  result,   \* rcode the promise was set, or the callback was called, with
  io,       \* where the IO thread is in OnResponse
  answered  \* auxiliary: rcode the server answered a request with

callerVars == <<form, pc, current>>
netVars    == <<toServer, toClient, answered>>
vars       == <<linked, callerVars, describe, netVars, result, io>>

IOIdle == [at |-> "idle", rid |-> NoRid, rtype |-> "none", rcode |-> "none"]
-----------------------------------------------------------------------------
(* Call, up to __NewDescribe: the sync form waits for the promise of the   *)
(* describe, the others pass a callback.  GetConnection must not be null.  *)
Rtype(f) == IF f = "sync" THEN "REQUEST_ASYNC" ELSE "REQUEST_CALLBACK"

NewDescribeMissing(t, r, f) ==  \* faulty: the describe is not inserted before Send
  /\ linked /\ pc[t] = "idle" /\ form[r] = "none"
  /\ form' = [form EXCEPT ![r] = f]
  /\ current' = [current EXCEPT ![t] = r]
  /\ pc' = [pc EXCEPT ![t] = "described"]
  /\ UNCHANGED <<linked, describe, netVars, result, io>>

NewDescribe(t, r, f) ==
  /\ linked
  /\ pc[t] = "idle"
  /\ form[r] = "none"
  /\ form' = [form EXCEPT ![r] = f]
  /\ describe' = [describe EXCEPT ![r] = Rtype(f)]
  /\ current' = [current EXCEPT ![t] = r]
  /\ pc' = [pc EXCEPT ![t] = "described"]
  /\ UNCHANGED <<linked, netVars, result, io>>

(* conn->Send: on a connection that closed meanwhile it does nothing.      *)
Send(t) ==
  /\ pc[t] = "described"
  /\ toServer' = IF linked THEN toServer \cup {current[t]} ELSE toServer
  /\ IF form[current[t]] = "sync"
     THEN /\ pc' = [pc EXCEPT ![t] = "waiting"]
          /\ UNCHANGED current
     ELSE /\ pc' = [pc EXCEPT ![t] = "idle"]
          /\ current' = [current EXCEPT ![t] = NoRid]
  /\ UNCHANGED <<linked, form, describe, toClient, answered, result, io>>

(* rsp_future.get() returns; Call reports RCODE_OK as true.                *)
SyncReturn(t) ==
  /\ pc[t] = "waiting"
  /\ result[current[t]] # "none"
  /\ pc' = [pc EXCEPT ![t] = "idle"]
  /\ current' = [current EXCEPT ![t] = NoRid]
  /\ UNCHANGED <<linked, form, describe, netVars, result, io>>
-----------------------------------------------------------------------------
(* RpcRouter::OnRpcRequest: every path ends in one Response.               *)
OnRpcRequestSilent(r, code) ==  \* faulty: no Response when the parameter check fails
  /\ r \in toServer
  /\ toServer' = toServer \ {r}
  /\ answered' = [answered EXCEPT ![r] = code]
  /\ toClient' = IF code = "RCODE_OK" THEN Append(toClient, [rid |-> r, rcode |-> code]) ELSE toClient
  /\ UNCHANGED <<linked, callerVars, describe, result, io>>

OnRpcRequest(r, code) ==
  /\ r \in toServer
  /\ toServer' = toServer \ {r}
  /\ answered' = [answered EXCEPT ![r] = code]
  /\ toClient' = Append(toClient, [rid |-> r, rcode |-> code])
  /\ UNCHANGED <<linked, callerVars, describe, result, io>>
-----------------------------------------------------------------------------
(* OnResponse, step one: __GetDescribe; an answer without one is dropped.  *)
GetDescribe ==
  /\ io.at = "idle"
  /\ toClient # <<>>
  /\ toClient' = Tail(toClient)
  /\ LET msg == Head(toClient)
     IN  io' = IF describe[msg.rid] = "none" THEN IOIdle
               ELSE [at |-> "found", rid |-> msg.rid,
                     rtype |-> describe[msg.rid], rcode |-> msg.rcode]
  /\ UNCHANGED <<linked, callerVars, describe, toServer, answered, result>>

CompletePromiseOnly ==  \* faulty: the describe was made without SetCallback
  /\ io.at = "found"
  /\ result' = IF io.rtype = "REQUEST_ASYNC" THEN [result EXCEPT ![io.rid] = io.rcode] ELSE result
  /\ io' = [io EXCEPT !.at = "completed"]
  /\ UNCHANGED <<linked, callerVars, describe, netVars>>

(* Step two: set_value of the describe's promise, or its callback.  The    *)
(* callbacks of RpcCaller do nothing with an answer that is not RCODE_OK.  *)
Complete ==
  /\ io.at = "found"
  /\ result' = IF io.rtype = "REQUEST_ASYNC" \/ io.rcode = "RCODE_OK"
               THEN [result EXCEPT ![io.rid] = io.rcode] ELSE result
  /\ io' = [io EXCEPT !.at = "completed"]
  /\ UNCHANGED <<linked, callerVars, describe, netVars>>

(* Step three: __DelDescribe; the handler returns and drops the describe.  *)
DelDescribeOnOK ==  \* faulty: an error returns before __DelDescribe
  /\ io.at = "completed"
  /\ describe' = IF io.rcode = "RCODE_OK" THEN [describe EXCEPT ![io.rid] = "none"] ELSE describe
  /\ io' = IOIdle
  /\ UNCHANGED <<linked, callerVars, netVars, result>>

DelDescribe ==
  /\ io.at = "completed"
  /\ describe' = [describe EXCEPT ![io.rid] = "none"]
  /\ io' = IOIdle
  /\ UNCHANGED <<linked, callerVars, netVars, result>>

(* The connection closes: MuduoClient::OnConnection runs in the IO thread, *)
(* between handlers.  What is on its way is lost, _request_desc is kept.   *)
OnDisconnected ==
  /\ linked
  /\ io.at = "idle"
  /\ linked' = FALSE
  /\ toServer' = {}
  /\ toClient' = <<>>
  /\ UNCHANGED <<callerVars, describe, result, io, answered>>
-----------------------------------------------------------------------------
Init ==
  /\ linked = TRUE
  /\ form = [r \in Rid |-> "none"]
  /\ describe = [r \in Rid |-> "none"]
  /\ pc = [t \in Thread |-> "idle"]
  /\ current = [t \in Thread |-> NoRid]
  /\ toServer = {}
  /\ toClient = <<>>
  /\ result = [r \in Rid |-> "none"]
  /\ io = IOIdle
  /\ answered = [r \in Rid |-> "none"]

Call(t)      == \E r \in Rid, f \in {"sync", "async", "callback"} : NewDescribe(t, r, f)
Serve(r)     == \E code \in {"RCODE_OK", "RCODE_INVAILED_PARAMS"} : OnRpcRequest(r, code)
OnResponse   == GetDescribe \/ Complete \/ DelDescribe

Next ==
  \/ \E t \in Thread : Call(t) \/ Send(t) \/ SyncReturn(t)
  \/ \E r \in Rid : Serve(r)
  \/ OnResponse
  \/ OnDisconnected

(* The loops of the client and of the server poll, and the system runs     *)
(* every thread that can run; nobody has to call, no connection to break.  *)
Fairness ==
  /\ \A t \in Thread : WF_vars(Send(t)) /\ WF_vars(SyncReturn(t))
  /\ \A r \in Rid : WF_vars(Serve(r))
  /\ WF_vars(OnResponse)

Spec == Init /\ [][Next]_vars /\ Fairness
-----------------------------------------------------------------------------
(* Who still refers to the promise or the callback of a request: the Call  *)
(* that made it, the describe, the OnResponse that handles its answer.     *)
Held(r) ==
  \/ \E t \in Thread : current[t] = r
  \/ describe[r] # "none"
  \/ io.rid = r

(* What the caller of a request sees of it.                                *)
Outcome(r) ==
  CASE form[r] = "none"    -> "none"
    [] result[r] # "none"  -> "ready"
    [] Held(r)             -> "pending"
    [] OTHER               -> IF form[r] = "async" THEN "broken promise" ELSE "never called"

Rcodes == {"none", "RCODE_OK", "RCODE_INVAILED_PARAMS"}

(* Types; at most one thread is in the Call of a request.                  *)
RequestorTypeOK ==
  /\ linked \in BOOLEAN
  /\ form \in [Rid -> {"none", "sync", "async", "callback"}]
  /\ describe \in [Rid -> {"none", "REQUEST_ASYNC", "REQUEST_CALLBACK"}]
  /\ pc \in [Thread -> {"idle", "described", "waiting"}]
  /\ current \in [Thread -> Rid \cup {NoRid}]
  /\ \A t \in Thread : pc[t] = "idle" <=> current[t] = NoRid
  /\ \A t, u \in Thread : (current[t] = current[u] /\ t # u) => current[t] = NoRid
  /\ toServer \subseteq Rid
  /\ toClient \in Seq([rid : Rid, rcode : Rcodes \ {"none"}])
  /\ result \in [Rid -> Rcodes]
  /\ answered \in [Rid -> Rcodes]
  /\ io \in [at : {"idle", "found", "completed"}, rid : Rid \cup {NoRid},
             rtype : {"none", "REQUEST_ASYNC", "REQUEST_CALLBACK"}, rcode : Rcodes]

(* An answer always finds its describe, of the kind its Call made: the     *)
(* describe is there before the request is sent, and erased by nobody else.*)
AnswerFindsDescribe ==
  \A i \in 1..Len(toClient) : LET r == toClient[i].rid IN describe[r] = Rtype(form[r])

(* While the connection is up every describe is still needed: its request  *)
(* is about to be sent, on its way, or its answer is.                      *)
NoIdleDescribe ==
  linked => \A r \in Rid : describe[r] # "none" =>
    \/ \E t \in Thread : pc[t] = "described" /\ current[t] = r
    \/ r \in toServer
    \/ \E i \in 1..Len(toClient) : toClient[i].rid = r
    \/ io.rid = r

(* The caller of an async Call gets a broken promise, and the callback of  *)
(* a callback Call is dropped, only when the server reported an error;     *)
(* what a completed request delivers is what the server answered it with.  *)
FailsOnlyOnError ==
  \A r \in Rid :
    /\ Outcome(r) \in {"broken promise", "never called"} =>
         answered[r] \in Rcodes \ {"none", "RCODE_OK"}
    /\ Outcome(r) = "ready" => result[r] = answered[r]

(* No call is pending for ever while the connection stays up: a sync Call  *)
(* returns, a future becomes ready or broken, a callback runs or is freed. *)
CallsAreSettled ==
  \A r \in Rid : Outcome(r) = "pending" ~> (Outcome(r) # "pending" \/ ~linked)

=============================================================================
