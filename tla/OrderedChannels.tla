--------------------------- MODULE OrderedChannels ---------------------------
(***************************************************************************)
(* What a Ruby network promises its controllers, and what the protocol     *)
(* modules take it to be: from every node to every other there is a        *)
(* channel per virtual network that loses and duplicates nothing, and that *)
(* keeps the order of messages if the virtual network is ordered.          *)
(***************************************************************************)
EXTENDS Integers, Sequences, SequencesExt

CONSTANTS Nodes, Vnets, OrderedVnets, Messages

VARIABLES
  channel,   \* [source, destination, virtual network]: messages on the way
  delivered  \* messages each node got, in order

vars == <<channel, delivered>>

Channels == Nodes \X Nodes \X Vnets

Init ==
  /\ channel = [c \in Channels |-> <<>>]
  /\ delivered = [n \in Nodes |-> <<>>]

\* A message enters the channels to all its destinations at once.
Send(m) ==
  /\ channel' = [c \in Channels |->
       IF c[1] = m.src /\ c[2] \in m.dests /\ c[3] = m.vnet THEN Append(channel[c], m)
                                                            ELSE channel[c]]
  /\ UNCHANGED delivered

Deliver(c, i) ==
  /\ c[3] \in OrderedVnets => i = 1
  /\ delivered' = [delivered EXCEPT ![c[2]] = Append(@, channel[c][i])]
  /\ channel' = [channel EXCEPT ![c] = RemoveAt(@, i)]

Next ==
  \/ \E m \in Messages : Send(m)
  \/ \E c \in Channels : \E i \in DOMAIN channel[c] : Deliver(c, i)

Spec == Init /\ [][Next]_vars

=============================================================================
