----------------------------- MODULE RsmiClocks -----------------------------
(***************************************************************************)
(* Performance level, overdrive, clocks, PCIe bandwidth and profiles.      *)
(*                                                                         *)
(* The overdrive table of the driver (pp_od_clk_voltage) is edited by one  *)
(* write for each entry; the write of "c" commits what was edited.  The    *)
(* setters first put the device under manual control.                      *)
(***************************************************************************)
EXTENDS RsmiHelpers

rsmi_dev_perf_level_get ==
  Chk \o Lock \o get_dev_value_str("kDevPerfLevel") \o Store
rsmi_dev_perf_level_set_v1 ==
  Root \o May({"INVALID_ARGS"}) \o Lock \o set_dev_value("kDevPerfLevel")
rsmi_dev_perf_level_set == Call("rsmi_dev_perf_level_set_v1")

rsmi_dev_overdrive_level_get ==
  Chk \o Lock \o get_dev_value_str("kDevOverDriveLevel")
    \o May({"UNEXPECTED_SIZE"}) \o Store
rsmi_dev_mem_overdrive_level_get ==
  Chk \o Lock \o get_dev_value_str("kDevMemOverDriveLevel")
    \o May({"UNEXPECTED_SIZE"}) \o Store
rsmi_dev_overdrive_level_set_v1 ==
  Root \o May({"INVALID_ARGS"}) \o Lock \o set_dev_value("kDevOverDriveLevel")
rsmi_dev_overdrive_level_set == Call("rsmi_dev_overdrive_level_set_v1")

rsmi_perf_determinism_mode_set ==
  Lock \o Call("rsmi_dev_perf_level_set_v1")
    \o set_dev_range("edit") \o set_dev_range("c")

rsmi_dev_clk_extremum_set ==
  May({"INVALID_ARGS"}) \o Lock \o Call("rsmi_dev_perf_level_set_v1")
    \o set_dev_range("edit") \o set_dev_range("c")

rsmi_dev_clk_range_set ==
  Lock \o Call("rsmi_dev_perf_level_set_v1")
    \o set_dev_range("edit") \o set_dev_range("edit") \o set_dev_range("c")

\* The clock type is looked at after the level is set.
rsmi_dev_od_clk_info_set ==
  Lock \o Call("rsmi_dev_perf_level_set_v1") \o May({"INVALID_ARGS"})
    \o set_dev_range("edit") \o set_dev_range("c")

rsmi_dev_od_volt_info_set ==
  Lock \o Call("rsmi_dev_perf_level_set_v1")
    \o set_dev_range("edit") \o set_dev_range("c")
rsmi_dev_od_volt_info_get == Lock \o Chk \o get_od_clk_volt_info

\* The caller's count of regions must not be zero; the helper leaves it
\* zero, and a count of zero means no support.
rsmi_dev_od_volt_curve_regions_get ==
  Chk \o May({"INVALID_ARGS"}) \o Lock \o get_od_clk_volt_curve_regions
    \o Return("NOT_SUPPORTED")

rsmi_dev_gpu_clk_freq_get ==
  Chk \o May({"INVALID_ARGS"}) \o Lock \o get_frequencies("Clk")

\* The frequencies are read, the level is set and the mask is written in one
\* hold of the mutex; a read-only file means no support.
rsmi_dev_gpu_clk_freq_set ==
  Root \o Lock \o May({"INVALID_ARGS"}) \o Call("rsmi_dev_gpu_clk_freq_get")
    \o May({"UNEXPECTED_SIZE"} \cup bitfield_to_freq_string)
    \o Call("rsmi_dev_perf_level_set_v1") \o May({"INVALID_ARGS"})
    \o Try(WriteFile("Clk", "value"))
    \o Opt(When({"PERMISSION"}, "NOT_SUPPORTED")) \o OrElse
\* Without a table of frequencies a PCIe device answers from gpu metrics.
rsmi_dev_pci_bandwidth_get ==
  Node \o ChkApi \o Lock \o Try(PassTo("get_frequencies"))
    \o When({"SUCCESS"}, "SUCCESS")
    \o OneOf({OrElse,
              Fallback \o Call("rsmi_dev_gpu_metrics_info_get")
                \o May({"NOT_SUPPORTED"}) \o Store})

rsmi_dev_pci_bandwidth_set ==
  Root \o Lock \o Call("rsmi_dev_pci_bandwidth_get")
    \o May(bitfield_to_freq_string)
    \o Call("rsmi_dev_perf_level_set_v1")
    \o WriteFile("kDevPCIEClk", "value")

\* Each of the three results may be null.
rsmi_dev_pci_throughput_get ==
  Lock \o get_dev_value_line("kDevPCIEThruPut") \o StoreIfGiven

rsmi_dev_gpu_reset == Root \o Lock \o get_dev_value_int("kDevGpuReset")

rsmi_dev_power_profile_presets_get ==
  Chk \o Lock \o get_power_profiles \o Store
rsmi_dev_power_profile_set == Root \o Lock \o set_power_profile
=============================================================================
