----------------------------- MODULE RsmiEvents -----------------------------
(***************************************************************************)
(* Counters, iterators over the supported functions, gpu metrics and the   *)
(* two functions of the tests.                                             *)
(***************************************************************************)
EXTENDS RsmiHelpers

rsmi_dev_counter_create == Root \o Chk \o Lock \o Store

\* The handle names the device, so the index is always good.  The event is
\* deleted even when it could not be stopped.
rsmi_dev_counter_destroy ==
  May({"INVALID_ARGS"}) \o Lock \o Root \o WriteFile("perf_event", "stop")

\* The handle is used before it is checked; always blocking.
rsmi_counter_control ==
  BlockingLock \o Root \o May({"INVALID_ARGS"})
    \o WriteFile("perf_event", "start")

\* Read again when the first value is out of the range of the hardware.
rsmi_counter_read ==
  NullArg({"INVALID_ARGS"}) \o Lock \o Root
    \o OneOf({Try(ReadFile("perf_event")),
              ReadFile("perf_event") \o Try(ReadFile("perf_event"))})
    \o When(ErrnoToRsmiStatus, "UNEXPECTED_SIZE")
    \o Store

\* The value is stored before the status of the read is returned.
rsmi_counter_available_counters_get ==
  Chk \o Lock \o May({"INVALID_ARGS"})
    \o Try(get_dev_value_int("kDevDFCountersAvailable")) \o Store \o OrElse

rsmi_dev_counter_group_supported == Lock \o Dev \o May({"NOT_SUPPORTED"})

\* Iterators; the list of supported functions is filled without the mutex.
rsmi_dev_supported_func_iterator_open ==
  Dev \o NullArg({"INVALID_ARGS"}) \o ReadFile("function files") \o Store
    \o May({"NO_DATA"})
rsmi_dev_supported_variant_iterator_open ==
  NullArg({"INVALID_ARGS"}) \o May({"INVALID_ARGS", "NO_DATA"}) \o Store
    \o May({"NO_DATA"})
rsmi_dev_supported_func_iterator_close ==
  NullArg({"INVALID_ARGS"}) \o May({"INVALID_ARGS"}) \o Store
rsmi_func_iter_value_get ==
  NullArg({"INVALID_ARGS"}) \o May({"NO_DATA", "INVALID_ARGS"}) \o Store
rsmi_func_iter_next == May({"NO_DATA", "INVALID_ARGS"})

\* The mutex is held for the partition, the reads of the header and of the
\* table and the copy; what the first three say is not looked at (GpuMetrics
\* follows the data).
rsmi_dev_gpu_metrics_info_get ==
  Lock \o Chk \o Ignore(Call("rsmi_dev_partition_id_get"))
    \o Ignore(ReadFile("kDevGpuMetrics")) \o Opt(Ignore(ReadFile("kDevGpuMetrics")))
    \o May({"UNEXPECTED_DATA"}) \o Store

\* The same file without the mutex.
rsmi_dev_gpu_metrics_header_info_get == Dev \o ReadFile("kDevGpuMetrics") \o Store
rsmi_dev_metrics_header_info_get ==
  NullArg({"INVALID_ARGS"}) \o PassTo("rsmi_dev_gpu_metrics_header_info_get")
rsmi_dev_metrics_xcd_counter_get ==
  NullArg({"INVALID_ARGS"}) \o Try(Call("rsmi_dev_gpu_metrics_info_get"))
    \o Store \o OrElse
rsmi_dev_metrics_log_get ==
  Dev \o ReadFile("kDevGpuMetrics") \o May({"NOT_SUPPORTED", "NO_DATA"})

rsmi_test_sleep == Lock
=============================================================================
