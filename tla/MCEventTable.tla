---------------------------- MODULE MCEventTable ----------------------------
EXTENDS EventTable

\* Every label hashes to its place in this list, a name to a sum over its
\* parts: some names collide, and resizing separates and joins them.
Labels == <<
  "rsmi_dev_count", "rsmi_lib_version", "driver_version_str_get", "fan_speed",
  "fan_speed_max_get", "gpu_clk_freq", "overdrive_level_get", "perf_level",
  "power_cap", "power_cap_range_get", "power_profile_set", "temp_metric_get",
  "memory_total_get", "xgmi_evt_get", "xgmi_bw_get">>
Place == [l \in {Labels[i] : i \in DOMAIN Labels} |-> CHOOSE i \in DOMAIN Labels : Labels[i] = l]
MCHash(n) ==
  Place[n.label] + 3 * n.dev
  + (CASE n.sub \in {"none", "current", "sensor0", "device1"} -> 0
       [] n.sub \in {"sensor1", "idx0", "count", "device2"}   -> 8
       [] OTHER                                              -> 5)
  + (IF n.variant \in {"min", "System", "CURRENT", "sent"} THEN 1 ELSE 2)

F(f, variant, sub) == [f |-> f, variant |-> variant, sub |-> sub]
Plain(f) == F(f, "none", "none")

\* What a card may support, in the order of the iterator.
CardFunctions == <<
  Plain("counter_create"),
  F("fan_speed_get", "none", "sensor0"), F("fan_speed_get", "none", "sensor1"),
  F("fan_speed_max_get", "none", "sensor0"), F("fan_speed_set", "none", "sensor0"),
  F("gpu_clk_freq_get", "System", "none"), F("gpu_clk_freq_set", "System", "none"),
  Plain("overdrive_level_get"), Plain("pci_bandwidth_get"),
  Plain("perf_level_get"), Plain("perf_level_set"), Plain("perf_level_set_v1"),
  F("power_cap_get", "none", "sensor0"), F("power_cap_get", "none", "sensor1"),
  F("power_cap_range_get", "none", "sensor0"), F("power_cap_set", "none", "sensor0"),
  Plain("power_profile_set"), F("temp_metric_get", "CURRENT", "sensor0"),
  F("temp_metric_get", "CURRENT", "sensor1"), F("memory_total_get", "VRAM", "none")>>

Groups == << {1}, {2, 4, 5}, {3}, {6, 7}, {8, 9}, {10, 11, 12}, {13, 15, 16}, {14},
             {17}, {18, 19}, {20} >>
Supported(gs) == SelectSeq([i \in DOMAIN CardFunctions |-> i], LAMBDA i : \E g \in gs : i \in Groups[g])
ListOf(gs) == [i \in DOMAIN Supported(gs) |-> CardFunctions[Supported(gs)[i]]]

MCPeer == <<"device1", "device2", "device3">>
Answers(n, answer) == [i \in 1..n |-> answer]
Card(gs, n, listed, freq, answer, width, groups) ==
  [listed |-> listed, functions |-> ListOf(gs), freq |-> [c \in Clocks |-> freq],
   xgmi |-> groups, p2p |-> Answers(n, answer), bandwidth |-> Answers(n, width)]

\* A card with any of the groups beside a small one, or beside none; a
\* function that sets needs the one that gets.
Sets == {gs \in SUBSET {1, 2, 4, 5, 6, 9} : 1 \in gs => Cardinality(gs) < 4}
        \cup {DOMAIN Groups}
MCSystems ==
  {<<Card(gs, 1, TRUE, freq, "no", FALSE, {})>> : gs \in Sets, freq \in {0, 2}}
  \cup {<<Card(gs, 2, listed, 1, answer, width, {}), Card({2, 6}, 2, TRUE, 0, answer, width, {})>> :
          gs \in {{2, 7}, DOMAIN Groups}, listed \in BOOLEAN,
          answer \in {"yes", "no", "error"}, width \in BOOLEAN}
  \cup {<<Card({2}, 1, TRUE, 0, "no", FALSE, {"XGMI"})>>}

\* A card with a fan whose speed can be set.
FanSystems  == {<<Card({2}, 1, TRUE, 0, "no", FALSE, {})>>}

\* The theorems are about these machines too.
ASSUME MachinesAssumption == WaysAgree /\ InOrder
=============================================================================
