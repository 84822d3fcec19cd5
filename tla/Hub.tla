-------------------------------- MODULE Hub --------------------------------
(***************************************************************************)
(* The control plane's hub: it reads job events from Redis and writes each *)
(* to every WebSocket of the event's tenant, holding its mutex meanwhile.  *)
(* Connections are added and removed under the same mutex by the goroutine *)
(* of their request. A message is numbered by the order of publication.    *)
(***************************************************************************)
EXTENDS Integers, Sequences

CONSTANTS
  Conns,         \* WebSocket connections
  Tenants,
  MaxMessages,   \* bound: events published
  Buffer         \* messages the subscription holds

ASSUME HubAssumption == MaxMessages \in Nat /\ Buffer \in Nat /\ Tenants # {}

VARIABLES
  published,     \* events published so far
  channel,       \* messages the hub has not sent, oldest first
  hpc, msg,      \* read: its place, and its message
  left,          \* send: connections it has still to write to
  mu,            \* h.mu is held
  conns,         \* per tenant: registered connections
  wpc, tenant,   \* per connection: its goroutine's place, its tenant
  reads,         \* per connection: the client takes what is written
  received,      \* per connection: what the client got
  sent,          \* history, per tenant: the messages sent
  since          \* history, per connection: how many of them before it was added

connVars == <<wpc, tenant, reads>>
hubVars == <<published, channel, hpc, msg, left, mu, conns, connVars, received, sent, since>>

NoMessage == [n |-> 0, tenant |-> CHOOSE t \in Tenants : TRUE, usable |-> FALSE]
Message == [n : 0..MaxMessages, tenant : Tenants, usable : BOOLEAN]

HubInit ==
  /\ published = 0 /\ channel = <<>>
  /\ hpc = "read" /\ msg = NoMessage /\ left = {} /\ mu = FALSE
  /\ conns = [t \in Tenants |-> {}]
  /\ wpc = [c \in Conns |-> "none"]
  /\ tenant = [c \in Conns |-> NoMessage.tenant]
  /\ reads = [c \in Conns |-> TRUE]
  /\ received = [c \in Conns |-> <<>>]
  /\ sent = [t \in Tenants |-> <<>>] /\ since = [c \in Conns |-> 0]

-----------------------------------------------------------------------------

(* events.Publish. A subscription that is full, or being renewed, misses   *)
(* the message; one without a tenant or not JSON is not usable.            *)
Publish ==
  /\ published < MaxMessages
  /\ published' = published + 1
  /\ \/ \E t \in Tenants, u \in BOOLEAN :
          /\ Len(channel) < Buffer
          /\ channel' = Append(channel, [n |-> published', tenant |-> t, usable |-> u])
     \/ UNCHANGED channel
  /\ UNCHANGED <<hpc, msg, left, mu, conns, connVars, received, sent, since>>

(* read: the next message; one that cannot be used is skipped.             *)
Read ==
  /\ hpc = "read" /\ channel # <<>>
  /\ channel' = Tail(channel)
  /\ IF Head(channel).usable
     THEN hpc' = "lock" /\ msg' = Head(channel)
     ELSE UNCHANGED <<hpc, msg>>
  /\ UNCHANGED <<published, left, mu, conns, connVars, received, sent, since>>

(* send takes the mutex.                                                   *)
SendLock ==
  /\ hpc = "lock" /\ ~mu
  /\ mu' = TRUE /\ left' = conns[msg.tenant] /\ hpc' = "send"
  /\ sent' = [sent EXCEPT ![msg.tenant] = Append(@, msg)]
  /\ UNCHANGED <<published, channel, msg, conns, connVars, received, since>>

(* Mutant of Write: with the deferred calls in the other order, the        *)
(* connection is not closed yet while remove waits for the mutex.          *)
WriteWaits(c) ==
  /\ hpc = "send" /\ c \in left
  /\ wpc[c] = "open" /\ reads[c]
  /\ received' = [received EXCEPT ![c] = Append(@, msg)]
  /\ left' = left \ {c}
  /\ UNCHANGED <<published, channel, hpc, msg, mu, conns, connVars, sent, since>>

(* conn.Write, whose error is ignored: to a client that reads, or to a     *)
(* connection that is closed. Otherwise it waits, without a deadline.      *)
Write(c) ==
  /\ hpc = "send" /\ c \in left
  /\ \/ /\ wpc[c] = "open" /\ reads[c]
        /\ received' = [received EXCEPT ![c] = Append(@, msg)]
     \/ /\ wpc[c] = "remove"
        /\ UNCHANGED received
  /\ left' = left \ {c}
  /\ UNCHANGED <<published, channel, hpc, msg, mu, conns, connVars, sent, since>>

SendUnlock ==
  /\ hpc = "send" /\ left = {}
  /\ mu' = FALSE /\ hpc' = "read" /\ msg' = NoMessage
  /\ UNCHANGED <<published, channel, left, conns, connVars, received, sent, since>>

-----------------------------------------------------------------------------
(* events: a request that is authenticated and accepted, of some tenant.   *)
Accept(c) ==
  /\ wpc[c] = "none"
  /\ wpc' = [wpc EXCEPT ![c] = "add"]
  /\ \E t \in Tenants : tenant' = [tenant EXCEPT ![c] = t]
  /\ UNCHANGED <<published, channel, hpc, msg, left, mu, conns, reads, received, sent, since>>

add(c) ==
  /\ wpc[c] = "add" /\ ~mu
  /\ conns' = [conns EXCEPT ![tenant[c]] = @ \cup {c}]
  /\ wpc' = [wpc EXCEPT ![c] = "open"]
  /\ since' = [since EXCEPT ![c] = Len(sent[tenant[c]])]
  /\ UNCHANGED <<published, channel, hpc, msg, left, mu, tenant, reads, received, sent>>

(* The client stops taking what is written, without closing.               *)
Stall(c) ==
  /\ wpc[c] = "open" /\ reads[c]
  /\ reads' = [reads EXCEPT ![c] = FALSE]
  /\ UNCHANGED <<published, channel, hpc, msg, left, mu, conns, wpc, tenant, received, sent,
                 since>>

(* conn.Read fails, and the first deferred call closes the connection.     *)
Close(c) ==
  /\ wpc[c] = "open"
  /\ wpc' = [wpc EXCEPT ![c] = "remove"]
  /\ UNCHANGED <<published, channel, hpc, msg, left, mu, conns, tenant, reads, received, sent,
                 since>>

(* Mutant of remove: the tenant's other connections go, too.               *)
removeAll(c) ==
  /\ wpc[c] = "remove" /\ ~mu
  /\ conns' = [conns EXCEPT ![tenant[c]] = {}]
  /\ wpc' = [wpc EXCEPT ![c] = "gone"]
  /\ UNCHANGED <<published, channel, hpc, msg, left, mu, tenant, reads, received, sent, since>>

(* The second deferred call.                                               *)
remove(c) ==
  /\ wpc[c] = "remove" /\ ~mu
  /\ conns' = [conns EXCEPT ![tenant[c]] = @ \ {c}]
  /\ wpc' = [wpc EXCEPT ![c] = "gone"]
  /\ UNCHANGED <<published, channel, hpc, msg, left, mu, tenant, reads, received, sent, since>>

send == SendLock \/ SendUnlock \/ \E c \in Conns : Write(c)

HubNext ==
  \/ Publish \/ Read \/ send
  \/ \E c \in Conns : Accept(c) \/ add(c) \/ Stall(c) \/ Close(c) \/ remove(c)

HubSpec == HubInit /\ [][HubNext]_hubVars

(* The goroutines of the control plane go on when the mutex stays free,    *)
(* and a client that does not read is disconnected in the end. No event    *)
(* need be published, and nobody need connect or close a connection that   *)
(* is read.                                                                *)
HubFairness ==
  /\ WF_hubVars(Read) /\ WF_hubVars(send)
  /\ \A c \in Conns :
       /\ WF_hubVars(add(c)) /\ WF_hubVars(remove(c))
       /\ WF_hubVars(~reads[c] /\ Close(c))

HubFairSpec == HubSpec /\ HubFairness

-----------------------------------------------------------------------------
HubTypeOK ==
  /\ published \in 0..MaxMessages
  /\ channel \in Seq(Message) /\ Len(channel) <= Buffer
  /\ hpc \in {"read", "lock", "send"} /\ msg \in Message
  /\ left \subseteq Conns /\ mu \in BOOLEAN
  /\ conns \in [Tenants -> SUBSET Conns]
  /\ wpc \in [Conns -> {"none", "add", "open", "remove", "gone"}]
  /\ tenant \in [Conns -> Tenants] /\ reads \in [Conns -> BOOLEAN]
  /\ received \in [Conns -> Seq(Message)]
  /\ sent \in [Tenants -> Seq(Message)] /\ since \in [Conns -> Nat]

(* A connection gets the events of its tenant and no others, in the order  *)
(* they were published, each once, and from its registration on none is    *)
(* missing that the hub has taken from Redis.                              *)
EveryEventOnce ==
  \A c \in Conns :
    LET mine == received[c]
        due == Len(sent[tenant[c]]) - since[c]
    IN /\ Len(mine) <= due
       /\ wpc[c] = "open" /\ c \notin left => Len(mine) = due
       /\ \A i \in 1..Len(mine) :
            /\ mine[i] = sent[tenant[c]][since[c] + i]
            /\ mine[i].tenant = tenant[c]
            /\ \A j \in 1..Len(mine) : i < j => mine[i].n < mine[j].n

(* The hub comes back for the next event, and a connection that waits for  *)
(* the mutex gets it: Write waits without a deadline, but the connection   *)
(* is closed before remove asks for the mutex that send holds.             *)
HubGoesOn ==
  /\ []<>(hpc = "read")
  /\ \A c \in Conns : wpc[c] \in {"add", "remove"} ~> wpc[c] \in {"open", "gone"}
=============================================================================
