--------------------------- MODULE MCNetflowIngest ---------------------------
(* The instance of NetflowIngest for TLC: the first two records are those of
   a scan, which differ in their ports only; then another protocol, without a
   time, and the next minute. *)
EXTENDS NetflowIngest

Seen(pair, minute, second, proto, bytes) ==
    [pair |-> pair, timed |-> TRUE, minute |-> minute, second |-> second, proto |-> proto, bytes |-> bytes]

Untimed(pair, proto, bytes) == [pair |-> pair, timed |-> FALSE, proto |-> proto, bytes |-> bytes]

MCRecord ==
    [n \in 1..MaxFlows |->
        CASE n <= 2 -> Seen("kali-host", 0, 0, "TCP", n)
          [] n = 3  -> Untimed("kali-host", "UDP", 1)
          [] OTHER  -> Seen("host-lan", 1, n, "TCP", 1)]
=============================================================================
