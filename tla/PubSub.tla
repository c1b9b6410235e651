------------------------------- MODULE PubSub -------------------------------
(***************************************************************************)
(* What the topic server promises, without its maps: members subscribe to  *)
(* topics that exist; a publication goes to the members subscribed at that *)
(* moment and to nobody else; a topic that is removed, or a member that    *)
(* leaves, takes its subscriptions along.                                  *)
(***************************************************************************)
EXTENDS Sequences

CONSTANTS
  Peer, Subject,
  Ticket,                        \* identifiers of requests
  Ok, NoSuchSubject, BadRequest  \* answers

VARIABLES
  members,  \* peers with an open connection
  subjects, \* topics that exist
  interest, \* who is subscribed to what
  inbox     \* what each peer is sent, in order

pubSubVars == <<members, subjects, interest, inbox>>

PubSubInit ==
  /\ members = {}
  /\ subjects = {}
  /\ interest = {}
  /\ inbox = [p \in Peer |-> <<>>]

Reply(box, p, code, r) == [box EXCEPT ![p] = Append(@, [kind |-> "response", rid |-> r, rcode |-> code])]

Join(p) ==
  /\ p \notin members
  /\ members' = members \cup {p}
  /\ UNCHANGED <<subjects, interest, inbox>>

Open(p, s, r) ==
  /\ subjects' = subjects \cup {s}
  /\ inbox' = Reply(inbox, p, Ok, r)
  /\ UNCHANGED <<members, interest>>

Close(p, s, r) ==
  /\ subjects' = subjects \ {s}
  /\ interest' = {x \in interest : x[2] # s}
  /\ inbox' = Reply(inbox, p, Ok, r)
  /\ UNCHANGED members

Subscribe(p, s, r) ==
  /\ interest' = IF s \in subjects THEN interest \cup {<<p, s>>} ELSE interest
  /\ inbox' = Reply(inbox, p, IF s \in subjects THEN Ok ELSE NoSuchSubject, r)
  /\ UNCHANGED <<members, subjects>>

Unsubscribe(p, s, r) ==
  /\ interest' = interest \ {<<p, s>>}
  /\ inbox' = Reply(inbox, p, Ok, r)
  /\ UNCHANGED <<members, subjects>>

(* The publisher's answer comes after the broadcast.                       *)
Publish(p, s, r) ==
  /\ inbox' = Reply([q \in Peer |-> IF <<q, s>> \in interest
                                     THEN Append(inbox[q], [kind |-> "publish", rid |-> r, topic |-> s])
                                     ELSE inbox[q]],
                    p, IF s \in subjects THEN Ok ELSE NoSuchSubject, r)
  /\ UNCHANGED <<members, subjects, interest>>

Refuse(p, r) ==
  /\ inbox' = Reply(inbox, p, BadRequest, r)
  /\ UNCHANGED <<members, subjects, interest>>

Leave(p) ==
  /\ p \in members
  /\ members' = members \ {p}
  /\ interest' = {x \in interest : x[1] # p}
  /\ inbox' = [inbox EXCEPT ![p] = <<>>]
  /\ UNCHANGED subjects

Read(p) ==
  /\ inbox[p] # <<>>
  /\ inbox' = [inbox EXCEPT ![p] = Tail(@)]
  /\ UNCHANGED <<members, subjects, interest>>

Ask(p, s, r) ==
  /\ p \in members
  /\ \/ Open(p, s, r)
     \/ Close(p, s, r)
     \/ Subscribe(p, s, r)
     \/ Unsubscribe(p, s, r)
     \/ Publish(p, s, r)
     \/ Refuse(p, r)

PubSubNext ==
  \E p \in Peer :
    \/ Join(p)
    \/ \E s \in Subject, r \in Ticket : Ask(p, s, r)
    \/ Leave(p)
    \/ Read(p)

PubSubSpec == PubSubInit /\ [][PubSubNext]_pubSubVars

=============================================================================
