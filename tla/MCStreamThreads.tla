--------------------------- MODULE MCStreamThreads ---------------------------
(* StreamManager under two kinds of application, for TLC. *)
EXTENDS MCStreamManager

\* One run for two kinds of application: a single thread that makes every call on
\* any number of streams, and several threads that share one stream, which they do
\* not destroy.  Bounds: a functional kernel only as the first operation; the last
\* operation is a kernel for stream zero, and several threads do without it.
CONSTANT MainHost
VARIABLE threaded

Allowed ==
  /\ \A h \in Hosts : host_op[h] # None =>
       /\ host_op[h].type = "func" => (host_op[h].uid = 1 /\ ~threaded)
       /\ host_op[h].uid = MaxOps => (host_op[h].type = "kernel" /\ host_stream[h] = None)
  /\ IF threaded
     THEN Len(m_streams) <= 1 /\ next_uid <= MaxOps /\ \A h \in Hosts : host_pc[h] # "destroy"
     ELSE \A h \in Hosts \ {MainHost} : host_pc[h] = "idle"

ApplicationInit == Init /\ threaded \in BOOLEAN
ApplicationNext == Next /\ UNCHANGED threaded /\ Allowed'
ApplicationSpec == ApplicationInit /\ [][ApplicationNext]_<<vars, threaded>> /\ Fairness
=============================================================================
