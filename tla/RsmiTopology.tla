---------------------------- MODULE RsmiTopology ----------------------------
(***************************************************************************)
(* Links between devices, partitions of a device and the processes on it.  *)
(*                                                                         *)
(* A link has two devices; the mutex taken is that of the source alone.    *)
(***************************************************************************)
EXTENDS RsmiHelpers

rsmi_topo_get_numa_node_number == topo_get_numa_node_number

rsmi_topo_get_link_weight ==
  Node \o Lock \o NullArg({"INVALID_ARGS"})
    \o May({"INVALID_ARGS", "INIT_ERROR", "INITIALIZATION_ERROR",
            "NOT_SUPPORTED"}) \o Store

rsmi_minmax_bandwidth_get ==
  Node \o Lock \o NullArg({"INVALID_ARGS"})
    \o May({"INVALID_ARGS", "INIT_ERROR", "NOT_SUPPORTED"}) \o Store

rsmi_topo_get_link_type ==
  Node \o NullArg({"INVALID_ARGS"})
    \o May({"INVALID_ARGS", "INIT_ERROR", "NOT_SUPPORTED"}) \o Store

\* False is stored before a failure is returned; the links are listed again
\* from sysfs.
rsmi_is_P2P_accessible ==
  Node \o NullArg({"INVALID_ARGS"}) \o Store
    \o May({"INVALID_ARGS", "FILE_ERROR"})

\* Errors of the link; reading the file resets it.
rsmi_dev_xgmi_error_status ==
  Chk \o Lock \o get_dev_value_int("kDevXGMIError") \o May({"UNKNOWN_ERROR"})
    \o Store
rsmi_dev_xgmi_error_reset == Lock \o get_dev_value_int("kDevXGMIError")

\* Partitions.  A text that names no partition throws in at().
get_partition(f) ==
  Chk \o Lock \o get_dev_value_str(f)
    \o May({"INTERNAL_EXCEPTION", "UNEXPECTED_DATA"}) \o Store
get_compute_partition == get_partition("kDevComputePartition")
get_memory_partition  == get_partition("kDevMemoryPartition")

rsmi_dev_compute_partition_get ==
  NullArg({"INVALID_ARGS"}) \o May({"INVALID_ARGS"}) \o Dev
    \o Call("get_compute_partition") \o Store \o Truncated
rsmi_dev_memory_partition_get ==
  NullArg({"INVALID_ARGS"}) \o May({"INVALID_ARGS"}) \o Dev
    \o Call("get_memory_partition") \o Store \o Truncated
rsmi_dev_memory_partition_capabilities_get ==
  NullArg({"INVALID_ARGS"}) \o May({"INVALID_ARGS"}) \o Dev \o Lock
    \o get_dev_value_line("kDevAvailableMemoryPartition") \o Store \o Truncated

is_available_compute_partition ==
  Lock \o get_dev_value_line("kDevAvailableComputePartition")
    \o May({"SETTING_UNAVAILABLE"})

\* Three holds of the mutex: what is available, what is current, the write.
\* An unreadable current partition is let through and then looked up.
rsmi_dev_compute_partition_set ==
  Root \o May({"PERMISSION"}) \o May({"INVALID_ARGS"})
    \o Call("is_available_compute_partition")
    \o Try(Call("get_compute_partition"))
    \o When({"UNEXPECTED_DATA"}, "INTERNAL_EXCEPTION") \o OrElse
    \o May({"SUCCESS"}) \o Dev \o Lock
    \o WriteFile("kDevComputePartition", "value")

\* One hold of the mutex, the restart of the driver included; then the mode
\* is polled (ten times in the code) until it is the one asked for.
rsmi_dev_memory_partition_set ==
  Root \o Lock \o May({"INVALID_ARGS"}) \o Try(Call("get_memory_partition"))
    \o When({"UNEXPECTED_DATA"}, "INTERNAL_EXCEPTION") \o OrElse
    \o May({"SUCCESS"})
    \o Ignore(Call("rsmi_dev_memory_partition_capabilities_get"))
    \o Dev \o Try(WriteFile("kDevMemoryPartition", "value"))
    \o When({"PERMISSION"}, "NOT_SUPPORTED") \o OrElse
    \o May({"AMDGPU_RESTART_ERR"})
    \o Ignore(Call("rsmi_dev_memory_partition_get"))
    \o Ignore(Call("rsmi_dev_memory_partition_get"))
    \o May({"AMDGPU_RESTART_ERR"})

\* The id is in the PCI id; the mode only tells which bits.
rsmi_dev_partition_id_get ==
  NullArg({"INVALID_ARGS"}) \o Lock
    \o Ignore(Call("rsmi_dev_compute_partition_get")) \o Store
    \o Call("rsmi_dev_pci_id_get")

\* Processes, from the files of KFD: no mutex.
rsmi_compute_process_info_get ==
  NullArg({"INVALID_ARGS"}) \o ReadFile("kfd/proc")
    \o May({"INSUFFICIENT_SIZE"}) \o Store
rsmi_compute_process_gpus_get ==
  NullArg({"INVALID_ARGS"}) \o ReadFile("kfd/proc/queues")
    \o May({"INSUFFICIENT_SIZE"}) \o Store \o May({"UNEXPECTED_SIZE"})
rsmi_compute_process_info_by_pid_get ==
  NullArg({"INVALID_ARGS"}) \o ReadFile("kfd/proc/pid") \o Store
rsmi_compute_process_info_by_device_get ==
  NullArg({"INVALID_ARGS"}) \o Node \o ReadFile("kfd/proc/pid") \o Store
=============================================================================
