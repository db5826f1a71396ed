----------------------------- MODULE MCConfigLoader -----------------------------
(* The configuration loader with the program's own limits for TLC: files of one *)
(* key at and around every limit, and of a few keys that are checked together.  *)
EXTENDS ConfigLoader, FiniteSets, TLC

MCLimits ==
    [channels |-> <<1, 8>>, bus |-> <<4, 128>>, burst |-> <<16, 65536>>, boost |-> <<1, 255>>,
     quantum |-> <<16, 65536>>, cycles |-> <<1, 1048576>>, issue |-> <<0, 1024>>]
MCDefaults == [channels |-> 3, depth |-> 4, bus |-> 32, burst |-> 64, issue |-> 0, read |-> 50, write |-> 50]
MCConfigWord == 2^30

Alone(k, v) == k :> v
Numbers == Cast \cup DOMAIN Ranged \cup Reals \cup Widths \cup {"rows", "cols", "clock"}
Bounds(k) ==
    LET ranges == {r \in {Ranged, Checked} : k \in DOMAIN r}
        ends == UNION {{r[k][1], r[k][2]} : r \in ranges} \cup {0, 4, 64}
    IN  {n \in UNION {{e - 1, e, e + 1} : e \in ends} : n < MCConfigWord}
            \cup (IF k \in Cast THEN {MCConfigWord + 4, -4} ELSE {})

Probes ==
    UNION {{Alone(k, <<"int", n>>) : n \in Bounds(k)} : k \in Numbers}
    \cup {Alone(k, v) : k \in Numbers, v \in {<<"real", 2>>, <<"flag", 1>>, <<"name", "two">>}}
    \cup {Alone(k, <<"name", name>>) : k \in DOMAIN Names, name \in UNION {{c[i] : i \in DOMAIN c} : c \in
            {Names[j] : j \in DOMAIN Names}} \cup {"other"}}
    \cup {Alone(k, <<"int", 1>>) : k \in DOMAIN Names}
    \cup {Alone(k, <<"flag", b>>) : k \in Switches, b \in {0, 1}}

Weighted(n) == <<"list", [i \in 1..8 |-> <<"int", IF i = 5 THEN n ELSE i>>]>>
Together ==
    {Alone("weights", Weighted(n)) : n \in {0, 1, 255, 256, -1}}
    \cup {Alone("weights", <<"list", <<>>>>), Alone("weights", <<"int", 3>>)}
    \cup {"mapping" :> <<"name", "xor">> @@ "dram_channels" :> <<"int", n>> : n \in {4, 6, 0}}
    \cup {"row_policy" :> <<"name", "adaptive">> @@ "timeout_domain" :> <<"name", d>> @@
          "timeout" :> <<"int", n>> @@ "timeout_ns" :> <<"real", 1 - n>> : d \in {"cycles", "ns"}, n \in {0, 1}}
    \cup {"turn_mode" :> <<"name", m>> @@ "rtw" :> <<"real", n>> @@ "turn_domain" :> <<"name", d>> :
            m \in {"fixed", "idle"}, d \in {"cycles", "ns"}, n \in {0, 1}}
    \cup {"refresh_mode" :> <<"name", m>> @@ "trefi" :> <<"int", n>> @@ "deferral" :> <<"int", e>> :
            m \in {"none", "all"}, n \in {0, 3900, 7800}, e \in {0, 3900, 7801}}
    \cup {"aging_domain" :> <<"name", "ns">> @@ "aging_ns" :> <<"real", n>> @@ "clock" :> <<"real", c>> :
            n \in {1, 524288, 524289, 1048576}, c \in {1, 4, 20}}
    \cup {"sparsity" :> <<"flag", a>> @@ "two_of_four" :> <<"flag", b>> : a \in {0, 1}, b \in {0, 1}}
    \cup {"latency_domain" :> <<"name", "ns">> @@ "clock" :> <<"real", 5>> @@ "service_mode" :> <<"name", "conserving">>}

MCFiles == Probes \cup Together

\* What tests write into a configuration: values in and out of what is accepted.
MCEdits ==
    {<<"channels", 0>>, <<"channels", 9>>, <<"bus", 3>>, <<"metering", -1>>, <<"select_issue", 1025>>,
     <<"scan_width", 9>>, <<"service_mode", 2>>, <<"clock", 0>>, <<"deferral", 0>>, <<"quantum_bytes", 0>>}

\* After the first call only these are read.
MCLater ==
    {Alone("channels", <<"int", 5>>), Alone("bus", <<"int", 24>>),
     "refresh_mode" :> <<"name", "none">> @@ "trefi" :> <<"int", 3900>> @@ "deferral" :> <<"int", 3900>>}

MCSpec ==
    LoaderInit /\ [][Reads(IF configSteps = 0 THEN Files ELSE MCLater) \/ Calls]_<<configVars, loaderVars>>

===============================================================================
