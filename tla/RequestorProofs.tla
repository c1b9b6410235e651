--------------------------- MODULE RequestorProofs ---------------------------
(***************************************************************************)
(* Proofs about request and answer correlation (Requestor), for any number *)
(* of threads and calls.                                                   *)
(*                                                                         *)
(* The inductive invariant follows a request through its life: described,  *)
(* on its way to the server, answered, being handled, settled.             *)
(***************************************************************************)
EXTENDS Requestor, SequenceTheorems, TLAPS

(* Described, and nothing has come of it yet. *)
Unanswered(r) ==
  /\ form[r] # "none"
  /\ describe[r] = Rtype(form[r])
  /\ result[r] = "none"
  /\ answered[r] = "none"

NotComing(r) == \A i \in 1..Len(toClient) : toClient[i].rid # r

Fresh ==
  \A r \in Rid : form[r] = "none" =>
    /\ describe[r] = "none" /\ result[r] = "none" /\ answered[r] = "none"
    /\ \A t \in Thread : current[t] # r
    /\ r \notin toServer /\ NotComing(r) /\ io.rid # r

Described ==
  \A t \in Thread : pc[t] = "described" =>
    /\ Unanswered(current[t])
    /\ current[t] \notin toServer /\ NotComing(current[t]) /\ io.rid # current[t]

Sent == \A r \in toServer : Unanswered(r) /\ NotComing(r) /\ io.rid # r

Answers ==
  /\ \A i \in 1..Len(toClient) : LET r == toClient[i].rid IN
       /\ form[r] # "none"
       /\ describe[r] = Rtype(form[r])
       /\ result[r] = "none"
       /\ answered[r] = toClient[i].rcode
       /\ io.rid # r
  /\ \A i, j \in 1..Len(toClient) : i # j => toClient[i].rid # toClient[j].rid

Handled ==
  /\ io.at = "idle" => io = IOIdle
  /\ io.at # "idle" =>
       /\ io.rid \in Rid
       /\ form[io.rid] # "none"
       /\ io.rtype = Rtype(form[io.rid]) /\ describe[io.rid] = io.rtype
       /\ answered[io.rid] = io.rcode /\ io.rcode # "none"
       /\ result[io.rid] =
            IF io.at = "completed" /\ (io.rtype = "REQUEST_ASYNC" \/ io.rcode = "RCODE_OK")
            THEN io.rcode ELSE "none"

Settled ==
  \A r \in Rid :
    /\ result[r] # "none" => result[r] = answered[r]
    /\ form[r] # "none" /\ describe[r] = "none" =>
         /\ answered[r] # "none"
         /\ answered[r] = "RCODE_OK" \/ form[r] = "sync" => result[r] = answered[r]

Lost == ~ linked => toServer = {} /\ toClient = <<>>

IInv ==
  /\ RequestorTypeOK
  /\ Fresh /\ Described /\ Sent /\ Answers /\ Handled /\ Settled
  /\ NoIdleDescribe
  /\ Lost

-----------------------------------------------------------------------------

(* Before the first call there is nothing to follow.                       *)
LEMMA InitInv == Init => IInv
<1> SUFFICES ASSUME Init PROVE IInv
  OBVIOUS
<1>1. RequestorTypeOK
  BY DEF Init, RequestorTypeOK, IOIdle, Rcodes
<1>2. Fresh /\ Described
  BY RequestorAssumption DEF Init, Fresh, Described, NotComing, IOIdle
<1>3. Sent /\ Answers
  BY DEF Init, Sent, Answers
<1>5. Handled
  BY DEF Init, Handled, IOIdle
<1>4. Settled /\ NoIdleDescribe /\ Lost
  BY DEF Init, Settled, NoIdleDescribe, Lost
<1> QED BY <1>1, <1>2, <1>3, <1>4, <1>5 DEF IInv

(* A describe is made for an identifier nothing knows yet, and the thread  *)
(* is between describing and sending.                                      *)
LEMMA NewDescribeInv ==
  ASSUME IInv, NEW t \in Thread, NEW r \in Rid, NEW f \in {"sync", "async", "callback"},
         NewDescribe(t, r, f)
  PROVE  IInv'
<1> USE DEF IInv
<1>1. RequestorTypeOK'
  BY RequestorAssumption DEF NewDescribe, callerVars, netVars, RequestorTypeOK, Rtype, Fresh, NotComing
<1>2. Fresh'
  BY RequestorAssumption DEF NewDescribe, callerVars, netVars, Fresh, NotComing, RequestorTypeOK, Unanswered, Rtype
<1>3. Described'
  BY RequestorAssumption DEF NewDescribe, callerVars, netVars, Described, NotComing, RequestorTypeOK, Unanswered, Rtype, Fresh
<1>4. Sent'
  BY RequestorAssumption DEF NewDescribe, callerVars, netVars, Sent, NotComing, RequestorTypeOK, Unanswered, Rtype, Fresh
<1>5. Answers'
  BY RequestorAssumption DEF NewDescribe, callerVars, netVars, Answers, NotComing, RequestorTypeOK, Unanswered, Rtype, Fresh
<1>6. Handled'
  BY RequestorAssumption DEF NewDescribe, callerVars, netVars, Handled, RequestorTypeOK, Rtype, Fresh, NotComing
<1>7. Settled'
  BY RequestorAssumption DEF NewDescribe, callerVars, netVars, Settled, RequestorTypeOK, Rtype, Fresh, NotComing
<1>8. NoIdleDescribe'
  BY RequestorAssumption DEF NewDescribe, callerVars, netVars, NoIdleDescribe, NotComing, RequestorTypeOK, Rtype, Fresh
<1>9. Lost'
  BY RequestorAssumption DEF NewDescribe, callerVars, netVars, Lost, RequestorTypeOK, Rtype
<1> QED BY <1>1, <1>2, <1>3, <1>4, <1>5, <1>6, <1>7, <1>8, <1>9

(* The request leaves for the server with its describe in place, or is     *)
(* lost with the connection.                                               *)
LEMMA SendInv ==
  ASSUME IInv, NEW t \in Thread, Send(t)
  PROVE  IInv'
<1> USE DEF IInv
<1>1. RequestorTypeOK'
  BY RequestorAssumption DEF Send, callerVars, netVars, RequestorTypeOK
<1>2. Fresh'
  BY RequestorAssumption DEF Send, callerVars, netVars, Fresh, NotComing, RequestorTypeOK, Unanswered, Described
<1>3. Described'
  BY RequestorAssumption DEF Send, callerVars, netVars, Described, NotComing, RequestorTypeOK, Unanswered
<1>4. Sent'
  BY RequestorAssumption DEF Send, callerVars, netVars, Sent, NotComing, RequestorTypeOK, Unanswered, Described
<1>5. Answers'
  BY RequestorAssumption DEF Send, callerVars, netVars, Answers, NotComing, RequestorTypeOK, Unanswered
<1>6. Handled'
  BY RequestorAssumption DEF Send, callerVars, netVars, Handled, RequestorTypeOK
<1>7. Settled'
  BY RequestorAssumption DEF Send, callerVars, netVars, Settled, RequestorTypeOK, Described
<1>8. NoIdleDescribe'
  BY RequestorAssumption DEF Send, callerVars, netVars, NoIdleDescribe, NotComing, RequestorTypeOK, Described
<1>9. Lost'
  BY RequestorAssumption DEF Send, callerVars, netVars, Lost, RequestorTypeOK
<1> QED BY <1>1, <1>2, <1>3, <1>4, <1>5, <1>6, <1>7, <1>8, <1>9

(* A synchronous caller wakes up when its result is there, and is free     *)
(* for its next call.                                                      *)
LEMMA SyncReturnInv ==
  ASSUME IInv, NEW t \in Thread, SyncReturn(t)
  PROVE  IInv'
<1> USE DEF IInv
<1>1. RequestorTypeOK'
  BY RequestorAssumption DEF SyncReturn, callerVars, netVars, RequestorTypeOK
<1>2. Fresh'
  BY RequestorAssumption DEF SyncReturn, callerVars, netVars, Fresh, NotComing, RequestorTypeOK, Unanswered
<1>3. Described'
  BY RequestorAssumption DEF SyncReturn, callerVars, netVars, Described, NotComing, RequestorTypeOK, Unanswered
<1>4. Sent'
  BY RequestorAssumption DEF SyncReturn, callerVars, netVars, Sent, NotComing, RequestorTypeOK, Unanswered
<1>5. Answers'
  BY RequestorAssumption DEF SyncReturn, callerVars, netVars, Answers, NotComing, RequestorTypeOK, Unanswered
<1>6. Handled'
  BY RequestorAssumption DEF SyncReturn, callerVars, netVars, Handled, RequestorTypeOK
<1>7. Settled'
  BY RequestorAssumption DEF SyncReturn, callerVars, netVars, Settled, RequestorTypeOK
<1>8. NoIdleDescribe'
  BY RequestorAssumption DEF SyncReturn, callerVars, netVars, NoIdleDescribe, NotComing, RequestorTypeOK
<1>9. Lost'
  BY RequestorAssumption DEF SyncReturn, callerVars, netVars, Lost, RequestorTypeOK
<1> QED BY <1>1, <1>2, <1>3, <1>4, <1>5, <1>6, <1>7, <1>8, <1>9

(* The server takes the request and sends the one answer to it.            *)
LEMMA OnRpcRequestInv ==
  ASSUME IInv, NEW r \in Rid, NEW code \in {"RCODE_OK", "RCODE_INVAILED_PARAMS"},
         OnRpcRequest(r, code)
  PROVE  IInv'
<1> USE DEF IInv
<1>a. /\ Len(toClient') = Len(toClient) + 1
      /\ \A i \in 1..Len(toClient) : toClient'[i] = toClient[i]
      /\ toClient'[Len(toClient')] = [rid |-> r, rcode |-> code]
      /\ Len(toClient) \in Nat
  BY DEF RequestorTypeOK, OnRpcRequest
<1>b. toClient' \in Seq([rid : Rid, rcode : Rcodes \ {"none"}])
  BY DEF RequestorTypeOK, OnRpcRequest, Rcodes
<1>1. RequestorTypeOK'
  BY <1>a, <1>b, RequestorAssumption DEF OnRpcRequest, callerVars, netVars, RequestorTypeOK, Sent, Unanswered, NotComing, Rcodes
<1>2. Fresh'
  BY <1>a, <1>b, RequestorAssumption DEF OnRpcRequest, callerVars, netVars, Fresh, NotComing, RequestorTypeOK, Unanswered, Sent
<1>3. Described'
  BY <1>a, <1>b, RequestorAssumption DEF OnRpcRequest, callerVars, netVars, Described, NotComing, RequestorTypeOK, Unanswered, Sent
<1>4. Sent'
  BY <1>a, <1>b, RequestorAssumption DEF OnRpcRequest, callerVars, netVars, Sent, NotComing, RequestorTypeOK, Unanswered
<1>5. Answers'
  BY <1>a, <1>b, RequestorAssumption DEF OnRpcRequest, callerVars, netVars, Answers, NotComing, RequestorTypeOK, Unanswered, Sent
<1>6. Handled'
  BY <1>a, <1>b, RequestorAssumption DEF OnRpcRequest, callerVars, netVars, Handled, RequestorTypeOK, Sent, Unanswered, NotComing
<1>7. Settled'
  BY <1>a, <1>b, RequestorAssumption DEF OnRpcRequest, callerVars, netVars, Settled, RequestorTypeOK, Sent, Unanswered, NotComing
<1>8. NoIdleDescribe'
  BY <1>a, <1>b, RequestorAssumption DEF OnRpcRequest, callerVars, netVars, NoIdleDescribe, NotComing, RequestorTypeOK, Sent, Unanswered
<1>9. Lost'
  BY <1>a, <1>b, RequestorAssumption DEF OnRpcRequest, callerVars, netVars, Lost, RequestorTypeOK, Sent, Unanswered, NotComing
<1> QED BY <1>1, <1>2, <1>3, <1>4, <1>5, <1>6, <1>7, <1>8, <1>9

(* First lock region of OnResponse: the answer at the head of the stream   *)
(* meets the describe of its request.                                      *)
LEMMA GetDescribeInv ==
  ASSUME IInv, GetDescribe
  PROVE  IInv'
<1> USE DEF IInv
<1>a. /\ Len(toClient) \in Nat \ {0}
      /\ Len(toClient') = Len(toClient) - 1
      /\ \A i \in 1..Len(toClient') : toClient'[i] = toClient[i + 1]
      /\ Head(toClient) = toClient[1]
  BY DEF RequestorTypeOK, GetDescribe
<1>b. /\ toClient' \in Seq([rid : Rid, rcode : Rcodes \ {"none"}])
      /\ toClient[1] \in [rid : Rid, rcode : Rcodes \ {"none"}]
  <2>1. toClient \in Seq([rid : Rid, rcode : Rcodes \ {"none"}]) /\ toClient # <<>> /\ toClient' = Tail(toClient)
    BY <1>a DEF RequestorTypeOK, GetDescribe
  <2>2. toClient' \in Seq([rid : Rid, rcode : Rcodes \ {"none"}])
    <3> DEFINE S == [rid : Rid, rcode : Rcodes \ {"none"}]
    <3> HIDE DEF S
    <3>1. toClient \in Seq(S) /\ toClient # <<>>
      BY <2>1 DEF S
    <3>2. Tail(toClient) \in Seq(S)
      BY <3>1, HeadTailProperties
    <3> QED BY <3>2, <2>1 DEF S
  <2>3. toClient[1] \in [rid : Rid, rcode : Rcodes \ {"none"}]
    <3> DEFINE S == [rid : Rid, rcode : Rcodes \ {"none"}]
    <3> HIDE DEF S
    <3>1. toClient \in Seq(S) /\ 1 \in 1..Len(toClient)
      BY <2>1, <1>a DEF S
    <3>2. toClient[1] \in S
      BY <3>1, ElementOfSeq
    <3> QED BY <3>2 DEF S
  <2> QED BY <2>2, <2>3
<1>c. /\ describe[toClient[1].rid] = Rtype(form[toClient[1].rid])
      /\ Rtype(form[toClient[1].rid]) # "none"
      /\ io = IOIdle
      /\ io' = [at |-> "found", rid |-> toClient[1].rid,
                rtype |-> describe[toClient[1].rid], rcode |-> toClient[1].rcode]
  BY <1>a DEF Answers, Handled, GetDescribe, Rtype
<1>1. RequestorTypeOK'
  BY <1>a, <1>b, <1>c, RequestorAssumption DEF GetDescribe, callerVars, netVars, RequestorTypeOK, Answers, IOIdle, Rcodes
<1>2. Fresh'
  BY <1>a, <1>b, <1>c, RequestorAssumption DEF GetDescribe, callerVars, netVars, Fresh, NotComing, RequestorTypeOK, Unanswered, Answers, IOIdle, Rcodes
<1>3. Described'
  BY <1>a, <1>b, <1>c, RequestorAssumption DEF GetDescribe, callerVars, netVars, Described, NotComing, RequestorTypeOK, Unanswered, Answers, IOIdle, Rcodes
<1>4. Sent'
  BY <1>a, <1>b, <1>c, RequestorAssumption DEF GetDescribe, callerVars, netVars, Sent, NotComing, RequestorTypeOK, Unanswered, Answers, IOIdle, Rcodes
<1>5. Answers'
  BY <1>a, <1>b, <1>c, RequestorAssumption DEF GetDescribe, callerVars, netVars, Answers, NotComing, RequestorTypeOK, Unanswered, IOIdle, Rcodes
<1>6. Handled'
  BY <1>a, <1>b, <1>c, RequestorAssumption DEF GetDescribe, callerVars, netVars, Handled, RequestorTypeOK, Answers, IOIdle, Rcodes
<1>7. Settled'
  BY <1>a, <1>b, <1>c, RequestorAssumption DEF GetDescribe, callerVars, netVars, Settled, RequestorTypeOK, Answers, IOIdle, Rcodes
<1>8. NoIdleDescribe'
  <2> SUFFICES ASSUME linked', NEW r \in Rid, describe'[r] # "none"
               PROVE  \/ \E t \in Thread : pc'[t] = "described" /\ current'[t] = r
                      \/ r \in toServer'
                      \/ \E i \in 1..Len(toClient') : toClient'[i].rid = r
                      \/ io'.rid = r
    BY DEF NoIdleDescribe
  <2>1. UNCHANGED <<linked, pc, current, describe, toServer>>
    BY DEF GetDescribe, callerVars
  <2>2. io.rid # r
    BY <1>c, RequestorAssumption DEF IOIdle
  <2>3. CASE \E i \in 1..Len(toClient) : toClient[i].rid = r
    <3>1. PICK i \in 1..Len(toClient) : toClient[i].rid = r
      BY <2>3
    <3>2. CASE i = 1
      BY <3>1, <3>2, <1>c
    <3>3. CASE i # 1
      <4>1. i - 1 \in 1..Len(toClient') /\ toClient'[i - 1] = toClient[i]
        BY <3>3, <1>a
      <4> QED BY <4>1, <3>1
    <3> QED BY <3>2, <3>3
  <2> QED BY <2>1, <2>2, <2>3 DEF NoIdleDescribe
<1>9. Lost'
  BY <1>a, <1>b, <1>c, RequestorAssumption DEF GetDescribe, callerVars, netVars, Lost, RequestorTypeOK
<1> QED BY <1>1, <1>2, <1>3, <1>4, <1>5, <1>6, <1>7, <1>8, <1>9

(* OnResponse between its locks: the promise is set, or the callback is    *)
(* called, for the describe in hand.                                       *)
LEMMA CompleteInv ==
  ASSUME IInv, Complete
  PROVE  IInv'
<1> USE DEF IInv
<1>1. RequestorTypeOK'
  BY RequestorAssumption DEF Complete, callerVars, netVars, RequestorTypeOK, Handled, Rcodes, Sent, Answers, Unanswered, Described, NotComing
<1>2. Fresh'
  BY RequestorAssumption DEF Complete, callerVars, netVars, Fresh, NotComing, RequestorTypeOK, Unanswered, Handled, Rcodes, Sent, Answers, Described
<1>3. Described'
  BY RequestorAssumption DEF Complete, callerVars, netVars, Described, NotComing, RequestorTypeOK, Unanswered, Handled, Rcodes, Sent, Answers
<1>4. Sent'
  BY RequestorAssumption DEF Complete, callerVars, netVars, Sent, NotComing, RequestorTypeOK, Unanswered, Handled, Rcodes, Answers, Described
<1>5. Answers'
  BY RequestorAssumption DEF Complete, callerVars, netVars, Answers, NotComing, RequestorTypeOK, Unanswered, Handled, Rcodes, Sent, Described
<1>6. Handled'
  BY RequestorAssumption DEF Complete, callerVars, netVars, Handled, RequestorTypeOK, Rcodes, Sent, Answers, Unanswered, Described, NotComing
<1>7. Settled'
  BY RequestorAssumption DEF Complete, callerVars, netVars, Settled, RequestorTypeOK, Handled, Rcodes, Sent, Answers, Unanswered, Described, NotComing
<1>8. NoIdleDescribe'
  BY RequestorAssumption DEF Complete, callerVars, netVars, NoIdleDescribe, NotComing, RequestorTypeOK, Handled, Rcodes, Sent, Answers, Unanswered, Described
<1>9. Lost'
  BY RequestorAssumption DEF Complete, callerVars, netVars, Lost, RequestorTypeOK, Handled, Rcodes, Sent, Answers, Unanswered, Described, NotComing
<1> QED BY <1>1, <1>2, <1>3, <1>4, <1>5, <1>6, <1>7, <1>8, <1>9

(* Last lock region of OnResponse: the describe is erased and the IO       *)
(* thread is free for the next answer.                                     *)
LEMMA DelDescribeInv ==
  ASSUME IInv, DelDescribe
  PROVE  IInv'
<1> USE DEF IInv
<1>a. io.rid \in Rid /\ \A i \in 1..Len(toClient) : toClient[i].rid # io.rid /\ toClient[i].rid \in Rid
  <2>1. io.rid \in Rid /\ \A i \in 1..Len(toClient) : toClient[i].rid # io.rid
    BY DEF DelDescribe, Handled, Answers
  <2>2. \A i \in 1..Len(toClient) : toClient[i].rid \in Rid
    <3> DEFINE S == [rid : Rid, rcode : Rcodes \ {"none"}]
    <3>1. \A i \in 1..Len(toClient) : toClient[i] \in S
      <4> HIDE DEF S
      <4>1. toClient \in Seq(S)
        BY DEF RequestorTypeOK, S
      <4> QED BY <4>1, ElementOfSeq
    <3> QED BY <3>1
  <2> QED BY <2>1, <2>2
<1>1. RequestorTypeOK'
  BY <1>a, RequestorAssumption DEF DelDescribe, callerVars, netVars, RequestorTypeOK, Handled, Rcodes, Sent, Answers, Unanswered, IOIdle, Rtype, Fresh, Described, NotComing
<1>2. Fresh'
  BY <1>a, RequestorAssumption DEF DelDescribe, callerVars, netVars, Fresh, NotComing, RequestorTypeOK, Unanswered, Handled, Rcodes, Sent, Answers, IOIdle, Rtype, Described
<1>3. Described'
  BY <1>a, RequestorAssumption DEF DelDescribe, callerVars, netVars, Described, NotComing, RequestorTypeOK, Unanswered, Handled, Rcodes, Sent, Answers, IOIdle, Rtype, Fresh
<1>4. Sent'
  BY <1>a, RequestorAssumption DEF DelDescribe, callerVars, netVars, Sent, NotComing, RequestorTypeOK, Unanswered, Handled, Rcodes, Answers, IOIdle, Rtype, Fresh, Described
<1>5. Answers'
  BY <1>a, RequestorAssumption DEF DelDescribe, callerVars, netVars, Answers, IOIdle
<1>6. Handled'
  BY <1>a, RequestorAssumption DEF DelDescribe, callerVars, netVars, Handled, RequestorTypeOK, Rcodes, Sent, Answers, Unanswered, IOIdle, Rtype, Fresh, Described, NotComing
<1>7. Settled'
  BY <1>a, RequestorAssumption DEF DelDescribe, callerVars, netVars, Settled, RequestorTypeOK, Handled, Rcodes, Sent, Answers, Unanswered, IOIdle, Rtype, Fresh, Described, NotComing
<1>8. NoIdleDescribe'
  BY <1>a, RequestorAssumption DEF DelDescribe, callerVars, netVars, NoIdleDescribe, NotComing, RequestorTypeOK, Handled, Rcodes, Sent, Answers, Unanswered, IOIdle, Rtype, Fresh, Described
<1>9. Lost'
  BY <1>a, RequestorAssumption DEF DelDescribe, callerVars, netVars, Lost, RequestorTypeOK, Handled, Rcodes, Sent, Answers, Unanswered, IOIdle, Rtype, Fresh, Described, NotComing
<1> QED BY <1>1, <1>2, <1>3, <1>4, <1>5, <1>6, <1>7, <1>8, <1>9

(* The loss of the connection empties both directions; what the IO thread  *)
(* has in hand stays.                                                      *)
LEMMA OnDisconnectedInv ==
  ASSUME IInv, OnDisconnected
  PROVE  IInv'
<1> USE DEF IInv
<1>a. <<>> \in Seq([rid : Rid, rcode : Rcodes \ {"none"}])
  OBVIOUS
<1>1. RequestorTypeOK'
  BY <1>a, RequestorAssumption DEF OnDisconnected, callerVars, netVars, RequestorTypeOK
<1>2. Fresh'
  BY <1>a, RequestorAssumption DEF OnDisconnected, callerVars, netVars, Fresh, NotComing, RequestorTypeOK, Unanswered
<1>3. Described'
  BY <1>a, RequestorAssumption DEF OnDisconnected, callerVars, netVars, Described, NotComing, RequestorTypeOK, Unanswered
<1>4. Sent'
  BY <1>a, RequestorAssumption DEF OnDisconnected, callerVars, netVars, Sent, NotComing, RequestorTypeOK, Unanswered
<1>5. Answers'
  BY <1>a, RequestorAssumption DEF OnDisconnected, callerVars, netVars, Answers, NotComing, RequestorTypeOK, Unanswered
<1>6. Handled'
  BY <1>a, RequestorAssumption DEF OnDisconnected, callerVars, netVars, Handled, RequestorTypeOK
<1>7. Settled'
  BY <1>a, RequestorAssumption DEF OnDisconnected, callerVars, netVars, Settled, RequestorTypeOK
<1>8. NoIdleDescribe'
  BY <1>a, RequestorAssumption DEF OnDisconnected, callerVars, netVars, NoIdleDescribe, NotComing, RequestorTypeOK
<1>9. Lost'
  BY <1>a, RequestorAssumption DEF OnDisconnected, callerVars, netVars, Lost, RequestorTypeOK
<1> QED BY <1>1, <1>2, <1>3, <1>4, <1>5, <1>6, <1>7, <1>8, <1>9

(* The invariant is about the variables only.                              *)
LEMMA StutterInv == ASSUME IInv, UNCHANGED vars PROVE IInv'
<1> USE DEF IInv, vars, callerVars, netVars
<1>1. RequestorTypeOK'
  BY DEF RequestorTypeOK
<1>2. Fresh' /\ Described' /\ Sent'
  BY DEF Fresh, Described, Sent, NotComing, Unanswered
<1>3. Answers' /\ Handled' /\ Settled'
  BY DEF Answers, Handled, Settled
<1>4. NoIdleDescribe' /\ Lost'
  BY DEF NoIdleDescribe, Lost
<1> QED BY <1>1, <1>2, <1>3, <1>4

(* The life of every request, in every reachable state.                    *)
THEOREM InvariantHolds == Spec => []IInv
<1>1. IInv /\ [Next]_vars => IInv'
  <2> SUFFICES ASSUME IInv, [Next]_vars PROVE IInv'
    OBVIOUS
  <2>1. CASE \E t \in Thread : Call(t) \/ Send(t) \/ SyncReturn(t)
    BY <2>1, NewDescribeInv, SendInv, SyncReturnInv DEF Call
  <2>2. CASE \E r \in Rid : Serve(r)
    BY <2>2, OnRpcRequestInv DEF Serve
  <2>3. CASE OnResponse
    BY <2>3, GetDescribeInv, CompleteInv, DelDescribeInv DEF OnResponse
  <2>4. CASE OnDisconnected
    BY <2>4, OnDisconnectedInv
  <2>5. CASE UNCHANGED vars
    BY <2>5, StutterInv
  <2> QED BY <2>1, <2>2, <2>3, <2>4, <2>5 DEF Next
<1> QED BY <1>1, InitInv, PTL DEF Spec

(* Types, and at most one thread in the Call of a request.                 *)
THEOREM TypeCorrect == Spec => []RequestorTypeOK
<1>1. IInv => RequestorTypeOK
  BY DEF IInv
<1> QED BY <1>1, InvariantHolds, PTL

(* An answer on its way always finds the describe its Call made.           *)
THEOREM AnswersFindDescribes == Spec => []AnswerFindsDescribe
<1>1. IInv => AnswerFindsDescribe
  BY DEF IInv, AnswerFindsDescribe, Answers
<1> QED BY <1>1, InvariantHolds, PTL

(* While the connection is up no describe is kept for nothing.             *)
THEOREM DescribesAreNeeded == Spec => []NoIdleDescribe
<1>1. IInv => NoIdleDescribe
  BY DEF IInv
<1> QED BY <1>1, InvariantHolds, PTL

(* A future breaks, or a callback is dropped, only when the server         *)
(* reported an error, and what is delivered is what the server answered.   *)
THEOREM OnlyErrorsFail == Spec => []FailsOnlyOnError
<1>1. ASSUME IInv PROVE FailsOnlyOnError
  <2> SUFFICES ASSUME NEW r \in Rid
               PROVE  /\ Outcome(r) \in {"broken promise", "never called"} =>
                           answered[r] \in Rcodes \ {"none", "RCODE_OK"}
                      /\ Outcome(r) = "ready" => result[r] = answered[r]
    BY DEF FailsOnlyOnError
  <2>1. /\ result[r] # "none" => result[r] = answered[r]
        /\ form[r] # "none" /\ describe[r] = "none" =>
             /\ answered[r] # "none"
             /\ answered[r] = "RCODE_OK" \/ form[r] = "sync" => result[r] = answered[r]
        /\ answered[r] \in Rcodes
        /\ form[r] = "none" => result[r] = "none"
    BY <1>1 DEF IInv, Settled, RequestorTypeOK, Fresh
  <2>2. Outcome(r) = "ready" => result[r] # "none"
    BY DEF Outcome
  <2>3. Outcome(r) \in {"broken promise", "never called"} =>
          form[r] # "none" /\ result[r] = "none" /\ describe[r] = "none"
    BY DEF Outcome, Held
  <2> QED BY <2>1, <2>2, <2>3
<1> QED BY <1>1, InvariantHolds, PTL

=============================================================================
