----------------------------- MODULE EventNames -----------------------------
(***************************************************************************)
(* What rocs.c knows of the functions of rocm_smi_lib: which of them it    *)
(* offers as native events, what tells two events of a function apart in   *)
(* their names, which events it makes of one supported function, and what  *)
(* their descriptions promise.                                             *)
(*                                                                         *)
(* A function is named without its rsmi_dev_ prefix, a variant by the last *)
(* part of its constant, -1 is "none".  A name is a record of what its     *)
(* text contains.                                                          *)
(***************************************************************************)
EXTENDS Naturals, Sequences

InfoFunctions == <<"rsmi_dev_count", "rsmi_lib_version", "driver_version_str_get">>

\* One event per device.
DeviceFunctions ==
  {"id_get", "subsystem_vendor_id_get", "vendor_id_get", "unique_id_get",
   "subsystem_id_get", "drm_render_minor_get", "overdrive_level_get",
   "busy_percent_get", "memory_busy_percent_get", "pci_id_get",
   "pci_replay_counter_get", "power_profile_set", "energy_count_get",
   "current_socket_power_get", "ecc_enabled_get"}
TextFunctions ==
  {"brand_get", "name_get", "serial_number_get", "subsystem_name_get",
   "vbios_version_get", "vendor_name_get"}
PerfLevel == {"perf_level_get", "perf_level_set", "perf_level_set_v1"}

\* One event per sensor.
FanSpeed == {"fan_speed_get", "fan_speed_set"}
PowerCap == {"power_cap_get", "power_cap_set"}
SensorFunctions ==
  {"fan_reset", "fan_rpms_get", "fan_speed_max_get", "power_ave_get"}
  \cup FanSpeed \cup PowerCap

\* The variants of which the name of an event is known.
Memories == {"VRAM", "VIS_VRAM", "GTT"}
Firmware == {"ASD", "CE", "DMCU", "MC", "ME", "MEC", "MEC2", "PFP", "RLC", "SRLC",
             "SRLG", "SRLS", "SDMA", "SDMA2", "SMC", "SOS", "RAS", "XGMI", "UVD",
             "VCE", "VCN"}
Blocks   == {"UMC", "SDMA", "GFX", "MMHUB", "ATHUB", "PCIE_BIF", "HDP", "XGMI_WAFL",
             "DF", "SMN", "SEM", "MP0", "MP1", "FUSE"}
Clocks   == {"System", "DataFabric", "DisplayEngine", "SOC", "Memory"}
Metrics  == {"CURRENT", "MAX", "MIN", "MAX_HYST", "MIN_HYST", "CRITICAL",
             "CRITICAL_HYST", "EMERGENCY", "EMERGENCY_HYST", "CRIT_MIN",
             "CRIT_MIN_HYST", "OFFSET", "LOWEST", "HIGHEST"}
Neighbor0 == {"0_BEATS_TX", "DATA_OUT_0"}
Neighbor1 == {"1_BEATS_TX", "DATA_OUT_1"}
XgmiEvents == [g \in {"XGMI", "XGMI_DATA_OUT"} |->
  IF g = "XGMI"
  THEN <<"0_NOP_TX", "0_REQUEST_TX", "0_RESPONSE_TX", "0_BEATS_TX",
         "1_NOP_TX", "1_REQUEST_TX", "1_RESPONSE_TX", "1_BEATS_TX">>
  ELSE <<"DATA_OUT_0", "DATA_OUT_1", "DATA_OUT_2", "DATA_OUT_3",
         "DATA_OUT_4", "DATA_OUT_5">>]

KnownVariants(f) ==
  CASE f \in {"memory_total_get", "memory_usage_get"}     -> Memories
    [] f = "firmware_version_get"                         -> Firmware
    [] f \in {"ecc_count_get", "ecc_status_get"}          -> Blocks
    [] f \in {"gpu_clk_freq_get", "gpu_clk_freq_set"}     -> Clocks
    [] f = "temp_metric_get"                              -> Metrics
    [] OTHER                                              -> {}
HasName(f, variant) ==
  \/ f \in DeviceFunctions \cup TextFunctions \cup PerfLevel \cup SensorFunctions
  \/ variant \in KnownVariants(f)

\* Get and set share a name.
Label(f) == CASE f \in PerfLevel -> "perf_level"
              [] f \in FanSpeed  -> "fan_speed"
              [] f \in PowerCap  -> "power_cap"
              [] f \in {"gpu_clk_freq_get", "gpu_clk_freq_set"} -> "gpu_clk_freq"
              [] OTHER           -> f

Name(label, dev, variant, sub) ==
  [label |-> label, dev |-> dev, variant |-> variant, sub |-> sub]
\* The name of an event of its own, that is of one whose variant and
\* subvariant are those of the iterator.
get_event_name(f, dev, variant, sub) ==
  CASE f \in SensorFunctions -> Name(Label(f), dev, "none", sub)
    [] f = "temp_metric_get" -> Name(f, dev, variant, sub)
    [] f # "temp_metric_get" /\ KnownVariants(f) # {} -> Name(f, dev, variant, "none")
    [] OTHER                 -> Name(Label(f), dev, "none", "none")

XgmiName(dev, variant) ==
  Name("xgmi_evt_get", dev, CASE variant \in Neighbor0 -> "neighbor0"
                              [] variant \in Neighbor1 -> "neighbor1"
                              [] OTHER -> variant, "none")

----------------------------------------------------------------------------
(* One supported function split into several events.                       *)

Frequencies == <<"idx0", "idx1", "idx2">>

\* freq is num_supported of the clock that a gpu_clk_freq function is about.
\* pcie_table is only filled under NO_PCIE, which no build defines.
SplitFunctions ==
  {"pci_throughput_get", "power_profile_presets_get", "power_cap_range_get",
   "ecc_count_get", "pci_bandwidth_get", "pci_bandwidth_set",
   "gpu_clk_freq_get", "gpu_clk_freq_set"}
SplitCount(f, freq) ==
  CASE f \in {"pci_throughput_get", "power_profile_presets_get"} -> 3
    [] f \in {"power_cap_range_get", "ecc_count_get"}            -> 2
    [] f = "gpu_clk_freq_get" /\ freq > 0                        -> freq + 2
    [] f = "gpu_clk_freq_set" /\ freq > 0                        -> 1
    [] OTHER                                                     -> 0

\* Variant and subvariant of the events of a split function.
Split(f, variant, sub, freq) ==
  CASE f = "pci_throughput_get" ->
         <<<<"sent", "none">>, <<"received", "none">>, <<"max_packet_size", "none">>>>
    [] f = "power_profile_presets_get" ->
         <<<<"count", "none">>, <<"avail_profiles", "none">>, <<"current", "none">>>>
    [] f = "power_cap_range_get" -> <<<<"min", sub>>, <<"max", sub>>>>
    [] f = "ecc_count_get" -> <<<<variant, "correctable">>, <<variant, "uncorrectable">>>>
    [] f = "gpu_clk_freq_get" /\ freq > 0 ->
         <<<<variant, "count">>, <<variant, "current">>>>
         \o [i \in 1..freq |-> <<variant, Frequencies[i]>>]
    [] f = "gpu_clk_freq_set" /\ freq > 0 -> <<<<variant, "mask">>>>
    [] OTHER -> <<>>

----------------------------------------------------------------------------
(* Access.  A mode is the set of what it permits.                          *)

ReadWrite == {"read", "write"}

\* "_get" reads, "_put" and "_reset" write, anything else reads.
get_access_mode(f) == IF f = "fan_reset" THEN {"write"} ELSE {"read"}
SplitMode(f) ==
  IF f \in {"pci_bandwidth_set", "gpu_clk_freq_set"} THEN {"write"} ELSE {"read"}

\* What the text of a description promises: Read Only, Read/Write, Write Only.
DescribedAccess(f, variant) ==
  CASE f \in {"fan_speed_set", "power_cap_set", "perf_level_set"}   -> ReadWrite
    [] f = "power_profile_presets_get" /\ variant = "current"       -> ReadWrite
    [] f \in {"power_profile_set", "fan_reset", "gpu_clk_freq_set",
              "pci_bandwidth_set"}                                  -> {"write"}
    [] OTHER                                                        -> {"read"}
=============================================================================
