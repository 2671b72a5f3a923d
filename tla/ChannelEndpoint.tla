--------------------------- MODULE ChannelEndpoint ---------------------------
(***************************************************************************)
(* One endpoint of a channel (ChannelEndpointObject and ChannelMessage of  *)
(* kernel/src/object/mod.rs) as functions on values.  A message is the     *)
(* sequence of the handle entries it carries; its bytes are copied and     *)
(* never looked at, and are left out.                                      *)
(***************************************************************************)
EXTENDS HandleTable

CONSTANTS
  MaxChannelMessages,  \* MAX_CHANNEL_MESSAGES, the slots of an endpoint
  MaxMessageHandles    \* MAX_CHANNEL_MESSAGE_HANDLES

ASSUME ChannelAssumption ==
  MaxChannelMessages \in Nat /\ MaxMessageHandles \in Nat

MessageSlots == 1 .. MaxChannelMessages

Messages == {m \in Seq(Entries) : Len(m) <= MaxMessageHandles}

ASSUME NoneIsNoMessage == None \notin Messages

Endpoints ==
  [ peer       : ObjectRefs \cup {None},
    queued     : Nat,
    max        : 0 .. MaxChannelMessages,
    peerClosed : BOOLEAN,
    messages   : [MessageSlots -> Messages \cup {None}] ]

NewEndpoint(max) ==
  [ peer       |-> None,
    queued     |-> 0,
    max        |-> max,
    peerClosed |-> FALSE,
    messages   |-> [i \in MessageSlots |-> None] ]

(* ensure_channel_can_enqueue, asked of the receiving endpoint.            *)
CanEnqueue(endpoint) ==
  /\ ~endpoint.peerClosed
  /\ endpoint.queued # endpoint.max
  /\ FreeIn(endpoint.messages, MessageSlots) # {}

Enqueue(endpoint, message) ==
  [endpoint EXCEPT !.messages[First(FreeIn(endpoint.messages, MessageSlots))] = message,
                   !.queued = @ + 1]

(* The message the next receive takes: the first occupied slot.            *)
Waiting(endpoint) == {i \in MessageSlots : endpoint.messages[i] # None}

NextMessage(endpoint) == endpoint.messages[First(Waiting(endpoint))]

(* Mutant: a received message stays counted.                               *)
Dequeue_Uncounted(endpoint) ==
  [endpoint EXCEPT !.messages[First(Waiting(endpoint))] = None]

(* Mutant: a received message is read and not taken out of its slot.       *)
Dequeue_Copies(endpoint) == [endpoint EXCEPT !.queued = @ - 1]

Dequeue(endpoint) ==
  [endpoint EXCEPT !.messages[First(Waiting(endpoint))] = None,
                   !.queued = @ - 1]

-----------------------------------------------------------------------------

(* The counter that bounds a queue is the number of queued messages.       *)
ConsistentQueue(endpoint) ==
  /\ endpoint.queued = Cardinality(Waiting(endpoint))
  /\ endpoint.queued <= endpoint.max

=============================================================================
