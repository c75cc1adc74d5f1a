-------------------------- MODULE MCServerSettings --------------------------
(* Small instances of ServerSettings for TLC. *)
EXTENDS ServerSettings

FewKeys == {"ssid", "ipaddr", "hostname", "use_second_ip", "ipaddr2"}

\* The longest string and address that fit.
Widths == [name29 |-> 29, host14 |-> 14, broadcast |-> 10]
MCHosts == {"host", "host14", "broadcast"}
NoNumbers == [w \in {} |-> 0]

\* The settings of the first image: no secondary address.
Shipped == [f \in Fields |-> CASE f = "ipaddr2" -> None
                              [] f = "ipaddr"  -> <<"host">>
                              [] OTHER         -> <<"old">>]

\* A form that can be stored, whose network name contains the name of a key
\* and a colon, and forms that cannot.
Good == [k \in Fields \cup Flags |->
           CASE k \in Flags     -> TRUE
             [] k \in Addresses -> <<"host14">>
             [] k = "ssid"      -> <<"my", ":", "hostname">>
             [] OTHER           -> <<"name29">>]
Forms ==
    {Good,
     [Good EXCEPT !["ssid"] = <<"a", ",", "b">>],
     [Good EXCEPT !["ipaddr"] = Ones]}

AllValues == UNION {{p[f] : f \in Fields} : p \in Forms}
               \cup {<<"old">>, <<"host">>}
=============================================================================
