-------------------------- MODULE GpuMetricsTables --------------------------
(***************************************************************************)
(* The gpu metrics of a device: a binary table the driver writes, in one   *)
(* of the versions 1.1 to 1.7.  A version has the table itself             *)
(* (Struct_v1x), the rows a query can find (populate_v1x) and the copy     *)
(* into the public structure (copy_v1x, from the public field to the field *)
(* of the table it takes).  A metric unit is named by the field it stands  *)
(* for; paddings and the header are left out.                              *)
(***************************************************************************)
Versions == {"v11", "v12", "v13", "v14", "v15", "v16", "v17"}

(* AMDGpuMetrics_v1x_t                                                     *)
Struct_v11 ==
  {"temperature_edge", "temperature_hotspot", "temperature_mem",
   "temperature_vrgfx", "temperature_vrsoc", "temperature_vrmem",
   "average_gfx_activity", "average_umc_activity", "average_mm_activity",
   "average_socket_power", "energy_accumulator", "system_clock_counter",
   "average_gfxclk_frequency", "average_socclk_frequency",
   "average_uclk_frequency", "average_vclk0_frequency",
   "average_dclk0_frequency", "average_vclk1_frequency",
   "average_dclk1_frequency", "current_gfxclk", "current_socclk",
   "current_uclk", "current_vclk0", "current_dclk0", "current_vclk1",
   "current_dclk1", "throttle_status", "current_fan_speed",
   "pcie_link_width", "pcie_link_speed", "gfx_activity_acc",
   "mem_activity_acc", "temperature_hbm"}
Struct_v12 == Struct_v11 \cup {"firmware_timestamp"}
Struct_v13 ==
  Struct_v12 \cup
    {"voltage_soc", "voltage_gfx", "voltage_mem", "indep_throttle_status"}
Struct_v14 ==
  {"temperature_hotspot", "temperature_mem", "temperature_vrsoc",
   "current_socket_power", "average_gfx_activity", "average_umc_activity",
   "vcn_activity", "energy_accumulator", "system_clock_counter",
   "throttle_status", "gfxclk_lock_status", "pcie_link_width",
   "pcie_link_speed", "xgmi_link_width", "xgmi_link_speed",
   "gfx_activity_acc", "mem_activity_acc", "pcie_bandwidth_acc",
   "pcie_bandwidth_inst", "pcie_l0_to_recov_count_acc",
   "pcie_replay_count_acc", "pcie_replay_rover_count_acc",
   "xgmi_read_data_acc", "xgmi_write_data_acc", "firmware_timestamp",
   "current_gfxclk", "current_socclk", "current_vclk0", "current_dclk0",
   "current_uclk"}
Struct_v15 ==
  Struct_v14 \cup
    {"jpeg_activity", "pcie_nak_sent_count_acc", "pcie_nak_rcvd_count_acc"}
Struct_v16 ==
  (Struct_v15 \ {"vcn_activity", "jpeg_activity", "throttle_status"}) \cup
    {"accumulation_counter", "prochot_residency_acc", "ppt_residency_acc",
     "socket_thm_residency_acc", "vr_thm_residency_acc",
     "hbm_thm_residency_acc", "num_partition", "xcp_gfx_busy_inst",
     "xcp_jpeg_busy", "xcp_vcn_busy", "xcp_gfx_busy_acc",
     "pcie_lc_perf_other_end_recovery"}
Struct_v17 ==
  Struct_v16 \cup
    {"vram_max_bandwidth", "xgmi_link_status", "xcp_gfx_below_host_limit_acc"}

(* populate_metrics_dynamic_tbl: the rows of a version                     *)
populate_v11 ==
  {"temperature_edge", "temperature_hotspot", "temperature_mem",
   "temperature_vrgfx", "temperature_vrsoc", "temperature_vrmem",
   "temperature_hbm", "average_socket_power", "energy_accumulator",
   "average_gfx_activity", "average_umc_activity", "average_mm_activity",
   "gfx_activity_acc", "mem_activity_acc", "system_clock_counter",
   "current_fan_speed", "throttle_status", "average_gfxclk_frequency",
   "average_socclk_frequency", "average_uclk_frequency",
   "average_vclk0_frequency", "average_dclk0_frequency",
   "average_vclk1_frequency", "average_dclk1_frequency", "current_gfxclk",
   "current_socclk", "current_uclk", "current_vclk0", "current_dclk0",
   "current_vclk1", "current_dclk1", "pcie_link_width", "pcie_link_speed"}
populate_v12 == populate_v11 \cup {"firmware_timestamp"}
populate_v13 ==
  populate_v12 \cup
    {"indep_throttle_status", "voltage_soc", "voltage_gfx", "voltage_mem"}
populate_v14 ==
  {"temperature_hotspot", "temperature_mem", "temperature_vrsoc",
   "current_socket_power", "energy_accumulator", "average_gfx_activity",
   "average_umc_activity", "vcn_activity", "gfx_activity_acc",
   "mem_activity_acc", "firmware_timestamp", "system_clock_counter",
   "throttle_status", "gfxclk_lock_status", "pcie_link_width",
   "pcie_link_speed", "xgmi_link_width", "xgmi_link_speed",
   "pcie_bandwidth_acc", "pcie_bandwidth_inst",
   "pcie_l0_to_recov_count_acc", "pcie_replay_count_acc",
   "pcie_replay_rover_count_acc", "xgmi_read_data_acc",
   "xgmi_write_data_acc", "current_gfxclk", "current_socclk",
   "current_vclk0", "current_dclk0", "current_uclk"}
populate_v15 ==
  populate_v14 \cup
    {"jpeg_activity", "pcie_nak_sent_count_acc", "pcie_nak_rcvd_count_acc"}

\* The rows of the xcp_stats are those of the first partition.
populate_v16 ==
  (populate_v15 \ {"vcn_activity", "jpeg_activity", "throttle_status"}) \cup
    {"accumulation_counter", "prochot_residency_acc", "ppt_residency_acc",
     "socket_thm_residency_acc", "vr_thm_residency_acc",
     "hbm_thm_residency_acc", "num_partition", "xcp_gfx_busy_inst",
     "xcp_vcn_busy", "xcp_jpeg_busy", "xcp_gfx_busy_acc",
     "pcie_lc_perf_other_end_recovery"}
populate_v17 ==
  populate_v16 \cup
    {"xgmi_link_status", "vram_max_bandwidth", "xcp_gfx_below_host_limit_acc"}

(* copy_internal_to_external_metrics: a field that is not copied keeps the *)
(* largest value of its type.                                              *)
Same(F) == [f \in F |-> f]
Also(f, g) ==
  [x \in DOMAIN f \cup DOMAIN g |-> IF x \in DOMAIN f THEN f[x] ELSE g[x]]

copy_v11 ==
  Same({"temperature_edge", "temperature_hotspot", "temperature_mem",
        "temperature_vrgfx", "temperature_vrsoc", "temperature_vrmem",
        "temperature_hbm", "average_gfx_activity", "average_umc_activity",
        "average_mm_activity", "average_socket_power", "energy_accumulator",
        "system_clock_counter", "average_gfxclk_frequency",
        "average_socclk_frequency", "average_uclk_frequency",
        "average_vclk0_frequency", "average_dclk0_frequency",
        "average_vclk1_frequency", "average_dclk1_frequency",
        "current_gfxclk", "current_socclk", "current_vclk0",
        "current_dclk0", "current_uclk", "current_vclk1", "current_dclk1",
        "throttle_status", "current_fan_speed", "pcie_link_width",
        "pcie_link_speed", "gfx_activity_acc", "mem_activity_acc"})
copy_v12 == Also(copy_v11, Same({"firmware_timestamp"}))

\* The clocks and the activity are also stored in the first element of the
\* arrays of the later versions.
FirstOfArrays13 ==
  [current_gfxclks |-> "current_gfxclk",
   current_socclks |-> "current_socclk",
   current_vclk0s |-> "current_vclk0",
   current_dclk0s |-> "current_dclk0",
   vcn_activity |-> "average_mm_activity",
   xcp_vcn_busy |-> "average_mm_activity"]
copy_v13 ==
  Also(copy_v12,
       Also(Same({"voltage_soc", "voltage_gfx", "voltage_mem",
                  "indep_throttle_status"}),
            FirstOfArrays13))

\* The arrays, and their first elements in the fields of the earlier
\* versions; vclk1 and dclk1 are the second elements.
ClockArrays ==
  [current_gfxclks |-> "current_gfxclk", current_gfxclk |-> "current_gfxclk",
   current_socclks |-> "current_socclk", current_socclk |-> "current_socclk",
   current_vclk0s |-> "current_vclk0", current_vclk0 |-> "current_vclk0",
   current_dclk0s |-> "current_dclk0", current_dclk0 |-> "current_dclk0",
   current_vclk1 |-> "current_vclk0", current_dclk1 |-> "current_dclk0",
   current_uclk |-> "current_uclk"]

CopiedSince14 ==
  {"temperature_hotspot", "temperature_mem", "temperature_vrsoc",
   "current_socket_power", "average_gfx_activity", "average_umc_activity",
   "energy_accumulator", "system_clock_counter", "gfxclk_lock_status",
   "pcie_link_width", "pcie_link_speed", "xgmi_link_width",
   "xgmi_link_speed", "gfx_activity_acc", "mem_activity_acc",
   "pcie_bandwidth_acc", "pcie_bandwidth_inst",
   "pcie_l0_to_recov_count_acc", "pcie_replay_count_acc",
   "pcie_replay_rover_count_acc", "xgmi_read_data_acc",
   "xgmi_write_data_acc", "firmware_timestamp"}
copy_v14 ==
  Also(Same(CopiedSince14 \cup {"vcn_activity", "throttle_status"}),
       ClockArrays)

\* mutant: the new activity of the version is forgotten
copy_v15_without_jpeg ==
  Also(copy_v14,
       Same({"pcie_nak_sent_count_acc", "pcie_nak_rcvd_count_acc"}))

copy_v15 ==
  Also(copy_v14, Same({"jpeg_activity", "pcie_nak_sent_count_acc",
                       "pcie_nak_rcvd_count_acc"}))

\* The activities are those of the partition of the device.
Activities16 ==
  [vcn_activity |-> "xcp_vcn_busy", jpeg_activity |-> "xcp_jpeg_busy"]
copy_v16 ==
  Also(Same(CopiedSince14 \cup
            {"pcie_nak_sent_count_acc", "pcie_nak_rcvd_count_acc",
             "accumulation_counter", "prochot_residency_acc",
             "ppt_residency_acc", "socket_thm_residency_acc",
             "vr_thm_residency_acc", "hbm_thm_residency_acc",
             "num_partition", "xcp_gfx_busy_inst", "xcp_jpeg_busy",
             "xcp_vcn_busy", "xcp_gfx_busy_acc",
             "pcie_lc_perf_other_end_recovery"}),
       Also(ClockArrays, Activities16))
copy_v17 ==
  Also(copy_v16, Same({"vram_max_bandwidth", "xgmi_link_status",
                       "xcp_gfx_below_host_limit_acc"}))

(* The objects of the versions: GpuMetricsBase_v1x_t                       *)
Struct ==
  [v11 |-> Struct_v11, v12 |-> Struct_v12, v13 |-> Struct_v13,
   v14 |-> Struct_v14, v15 |-> Struct_v15, v16 |-> Struct_v16,
   v17 |-> Struct_v17]
Rows ==
  [v11 |-> populate_v11, v12 |-> populate_v12, v13 |-> populate_v13,
   v14 |-> populate_v14, v15 |-> populate_v15, v16 |-> populate_v16,
   v17 |-> populate_v17]
Copy ==
  [v11 |-> copy_v11, v12 |-> copy_v12, v13 |-> copy_v13, v14 |-> copy_v14,
   v15 |-> copy_v15, v16 |-> copy_v16, v17 |-> copy_v17]

(* AMDGpuMetricsUnitType_t                                                 *)
MetricUnits == UNION {Rows[v] : v \in Versions}

\* What the public structure takes from the table of version v.
TakenBy(v) == {Copy[v][f] : f \in DOMAIN Copy[v]}
=============================================================================
