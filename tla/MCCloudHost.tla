----------------------------- MODULE MCCloudHost -----------------------------
(* Instances of CloudHost for TLC: two droplets and two addresses, so that  *)
(* an address can come back with another droplet; an apex with a record     *)
(* left by an older release and an alias of it.                             *)
EXTENDS CloudHost, TLC

CONSTANTS apex, www

NoRecord == [a |-> NoIp, cname |-> NoSite, legacy |-> FALSE]

MCInitialDns ==
    { (apex :> [NoRecord EXCEPT !.legacy = TRUE]) @@ (www :> [NoRecord EXCEPT !.cname = apex]) }
    \cup { (apex :> [NoRecord EXCEPT !.a = i]) @@ (www :> [NoRecord EXCEPT !.cname = www])
             : i \in {CHOOSE j \in Ips : TRUE} }
==============================================================================
