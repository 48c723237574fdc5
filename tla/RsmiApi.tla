------------------------------ MODULE RsmiApi ------------------------------
(***************************************************************************)
(* The functions of rocm_smi_lib by name: the program of each, and the     *)
(* static functions that others call.                                      *)
(***************************************************************************)
EXTENDS RsmiIdentity, RsmiSensors, RsmiClocks, RsmiTopology, RsmiEvents

Program == [
  rsmi_dev_ecc_enabled_get |-> rsmi_dev_ecc_enabled_get,
  rsmi_dev_ecc_status_get |-> rsmi_dev_ecc_status_get,
  rsmi_dev_ecc_count_get |-> rsmi_dev_ecc_count_get,
  rsmi_dev_pci_id_get |-> rsmi_dev_pci_id_get,
  rsmi_topo_numa_affinity_get |-> rsmi_topo_numa_affinity_get,
  rsmi_dev_id_get |-> rsmi_dev_id_get,
  rsmi_dev_xgmi_physical_id_get |-> rsmi_dev_xgmi_physical_id_get,
  rsmi_dev_revision_get |-> rsmi_dev_revision_get,
  rsmi_dev_sku_get |-> rsmi_dev_sku_get,
  rsmi_dev_subsystem_id_get |-> rsmi_dev_subsystem_id_get,
  rsmi_dev_vendor_id_get |-> rsmi_dev_vendor_id_get,
  rsmi_dev_subsystem_vendor_id_get |-> rsmi_dev_subsystem_vendor_id_get,
  rsmi_dev_firmware_version_get |-> rsmi_dev_firmware_version_get,
  rsmi_dev_name_get |-> rsmi_dev_name_get,
  rsmi_dev_brand_get |-> rsmi_dev_brand_get,
  rsmi_dev_vram_vendor_get |-> rsmi_dev_vram_vendor_get,
  rsmi_dev_subsystem_name_get |-> rsmi_dev_subsystem_name_get,
  rsmi_dev_drm_render_minor_get |-> rsmi_dev_drm_render_minor_get,
  rsmi_dev_vendor_name_get |-> rsmi_dev_vendor_name_get,
  rsmi_dev_market_name_get |-> rsmi_dev_market_name_get,
  rsmi_dev_vbios_version_get |-> rsmi_dev_vbios_version_get,
  rsmi_dev_serial_number_get |-> rsmi_dev_serial_number_get,
  rsmi_dev_pci_replay_counter_get |-> rsmi_dev_pci_replay_counter_get,
  rsmi_dev_unique_id_get |-> rsmi_dev_unique_id_get,
  rsmi_dev_xgmi_hive_id_get |-> rsmi_dev_xgmi_hive_id_get,
  rsmi_num_monitor_devices |-> rsmi_num_monitor_devices,
  rsmi_version_get |-> rsmi_version_get,
  rsmi_version_str_get |-> rsmi_version_str_get,
  rsmi_dev_guid_get |-> rsmi_dev_guid_get,
  rsmi_dev_node_id_get |-> rsmi_dev_node_id_get,
  rsmi_dev_target_graphics_version_get |-> rsmi_dev_target_graphics_version_get,
  rsmi_dev_temp_metric_get |-> rsmi_dev_temp_metric_get,
  rsmi_dev_volt_metric_get |-> rsmi_dev_volt_metric_get,
  rsmi_dev_fan_speed_get |-> rsmi_dev_fan_speed_get,
  rsmi_dev_fan_rpms_get |-> rsmi_dev_fan_rpms_get,
  rsmi_dev_fan_speed_max_get |-> rsmi_dev_fan_speed_max_get,
  rsmi_dev_fan_reset |-> rsmi_dev_fan_reset,
  rsmi_dev_fan_speed_set |-> rsmi_dev_fan_speed_set,
  rsmi_dev_power_max_get |-> rsmi_dev_power_max_get,
  rsmi_dev_power_ave_get |-> rsmi_dev_power_ave_get,
  rsmi_dev_current_socket_power_get |-> rsmi_dev_current_socket_power_get,
  rsmi_dev_power_get |-> rsmi_dev_power_get,
  rsmi_dev_energy_count_get |-> rsmi_dev_energy_count_get,
  rsmi_dev_power_cap_default_get |-> rsmi_dev_power_cap_default_get,
  rsmi_dev_power_cap_get |-> rsmi_dev_power_cap_get,
  rsmi_dev_power_cap_range_get |-> rsmi_dev_power_cap_range_get,
  rsmi_dev_power_cap_set |-> rsmi_dev_power_cap_set,
  rsmi_dev_memory_total_get |-> rsmi_dev_memory_total_get,
  rsmi_dev_memory_usage_get |-> rsmi_dev_memory_usage_get,
  rsmi_dev_memory_busy_percent_get |-> rsmi_dev_memory_busy_percent_get,
  rsmi_dev_busy_percent_get |-> rsmi_dev_busy_percent_get,
  rsmi_utilization_count_get |-> rsmi_utilization_count_get,
  rsmi_dev_activity_metric_get |-> rsmi_dev_activity_metric_get,
  rsmi_dev_activity_avg_mm_get |-> rsmi_dev_activity_avg_mm_get,
  rsmi_dev_memory_reserved_pages_get |-> rsmi_dev_memory_reserved_pages_get,
  rsmi_dev_perf_level_get |-> rsmi_dev_perf_level_get,
  rsmi_dev_perf_level_set_v1 |-> rsmi_dev_perf_level_set_v1,
  rsmi_dev_perf_level_set |-> rsmi_dev_perf_level_set,
  rsmi_dev_overdrive_level_get |-> rsmi_dev_overdrive_level_get,
  rsmi_dev_mem_overdrive_level_get |-> rsmi_dev_mem_overdrive_level_get,
  rsmi_dev_overdrive_level_set_v1 |-> rsmi_dev_overdrive_level_set_v1,
  rsmi_dev_overdrive_level_set |-> rsmi_dev_overdrive_level_set,
  rsmi_perf_determinism_mode_set |-> rsmi_perf_determinism_mode_set,
  rsmi_dev_clk_extremum_set |-> rsmi_dev_clk_extremum_set,
  rsmi_dev_clk_range_set |-> rsmi_dev_clk_range_set,
  rsmi_dev_od_clk_info_set |-> rsmi_dev_od_clk_info_set,
  rsmi_dev_od_volt_info_set |-> rsmi_dev_od_volt_info_set,
  rsmi_dev_od_volt_info_get |-> rsmi_dev_od_volt_info_get,
  rsmi_dev_od_volt_curve_regions_get |-> rsmi_dev_od_volt_curve_regions_get,
  rsmi_dev_gpu_clk_freq_get |-> rsmi_dev_gpu_clk_freq_get,
  rsmi_dev_gpu_clk_freq_set |-> rsmi_dev_gpu_clk_freq_set,
  rsmi_dev_pci_bandwidth_get |-> rsmi_dev_pci_bandwidth_get,
  rsmi_dev_pci_bandwidth_set |-> rsmi_dev_pci_bandwidth_set,
  rsmi_dev_pci_throughput_get |-> rsmi_dev_pci_throughput_get,
  rsmi_dev_gpu_reset |-> rsmi_dev_gpu_reset,
  rsmi_dev_power_profile_presets_get |-> rsmi_dev_power_profile_presets_get,
  rsmi_dev_power_profile_set |-> rsmi_dev_power_profile_set,
  rsmi_topo_get_numa_node_number |-> rsmi_topo_get_numa_node_number,
  rsmi_topo_get_link_weight |-> rsmi_topo_get_link_weight,
  rsmi_minmax_bandwidth_get |-> rsmi_minmax_bandwidth_get,
  rsmi_topo_get_link_type |-> rsmi_topo_get_link_type,
  rsmi_is_P2P_accessible |-> rsmi_is_P2P_accessible,
  rsmi_dev_xgmi_error_status |-> rsmi_dev_xgmi_error_status,
  rsmi_dev_xgmi_error_reset |-> rsmi_dev_xgmi_error_reset,
  rsmi_dev_compute_partition_get |-> rsmi_dev_compute_partition_get,
  rsmi_dev_memory_partition_get |-> rsmi_dev_memory_partition_get,
  rsmi_dev_memory_partition_capabilities_get |-> rsmi_dev_memory_partition_capabilities_get,
  rsmi_dev_compute_partition_set |-> rsmi_dev_compute_partition_set,
  rsmi_dev_memory_partition_set |-> rsmi_dev_memory_partition_set,
  rsmi_dev_partition_id_get |-> rsmi_dev_partition_id_get,
  rsmi_compute_process_info_get |-> rsmi_compute_process_info_get,
  rsmi_compute_process_gpus_get |-> rsmi_compute_process_gpus_get,
  rsmi_compute_process_info_by_pid_get |-> rsmi_compute_process_info_by_pid_get,
  rsmi_compute_process_info_by_device_get |-> rsmi_compute_process_info_by_device_get,
  rsmi_dev_counter_create |-> rsmi_dev_counter_create,
  rsmi_dev_counter_destroy |-> rsmi_dev_counter_destroy,
  rsmi_counter_control |-> rsmi_counter_control,
  rsmi_counter_read |-> rsmi_counter_read,
  rsmi_counter_available_counters_get |-> rsmi_counter_available_counters_get,
  rsmi_dev_counter_group_supported |-> rsmi_dev_counter_group_supported,
  rsmi_dev_supported_func_iterator_open |-> rsmi_dev_supported_func_iterator_open,
  rsmi_dev_supported_variant_iterator_open |-> rsmi_dev_supported_variant_iterator_open,
  rsmi_dev_supported_func_iterator_close |-> rsmi_dev_supported_func_iterator_close,
  rsmi_func_iter_value_get |-> rsmi_func_iter_value_get,
  rsmi_func_iter_next |-> rsmi_func_iter_next,
  rsmi_dev_gpu_metrics_info_get |-> rsmi_dev_gpu_metrics_info_get,
  rsmi_dev_gpu_metrics_header_info_get |-> rsmi_dev_gpu_metrics_header_info_get,
  rsmi_dev_metrics_header_info_get |-> rsmi_dev_metrics_header_info_get,
  rsmi_dev_metrics_xcd_counter_get |-> rsmi_dev_metrics_xcd_counter_get,
  rsmi_dev_metrics_log_get |-> rsmi_dev_metrics_log_get,
  rsmi_test_sleep |-> rsmi_test_sleep,
  get_frequencies |-> get_frequencies("kDevPCIEClk"),
  get_compute_partition |-> get_compute_partition,
  get_memory_partition |-> get_memory_partition,
  is_available_compute_partition |-> is_available_compute_partition]

StaticFunctions ==
  {"get_frequencies", "get_compute_partition", "get_memory_partition",
   "is_available_compute_partition"}
ApiFunctions == DOMAIN Program \ StaticFunctions
=============================================================================
