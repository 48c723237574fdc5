---------------------------- MODULE RsmiSensors ----------------------------
(***************************************************************************)
(* The sensors of a device: temperature, voltage, fans, power, energy,     *)
(* memory and utilisation.                                                 *)
(***************************************************************************)
EXTENDS RsmiHelpers

\* High bandwidth memory is read from the gpu metrics, the rest from hwmon.
rsmi_dev_temp_metric_get ==
  NullArg({"INVALID_ARGS"})
    \o OneOf({May({"NOT_SUPPORTED"}) \o Call("rsmi_dev_gpu_metrics_info_get")
                \o May({"INVALID_ARGS", "NOT_SUPPORTED"}) \o Store
                \o Return("SUCCESS"),
              Lock \o Dev \o NoMonitor \o ChkApi
                \o get_dev_mon_value("kMonTemp") \o Store})

rsmi_dev_volt_metric_get ==
  Lock \o Dev \o NoMonitor \o ChkApi \o get_dev_mon_value("kMonVolt") \o Store

rsmi_dev_fan_speed_get ==
  Chk \o Lock \o get_dev_mon_value("kMonFanSpeed") \o Store
rsmi_dev_fan_rpms_get ==
  Chk \o Lock \o get_dev_mon_value("kMonFanRPMs") \o Store
rsmi_dev_fan_speed_max_get ==
  Chk \o Lock \o get_dev_mon_value("kMonMaxFanSpeed") \o Store
rsmi_dev_fan_reset ==
  Root \o Lock \o set_dev_mon_value("kMonFanCntrlEnable")

\* The fan is put under manual control before its speed is written.
rsmi_dev_fan_speed_set ==
  Root \o Lock \o Call("rsmi_dev_fan_speed_max_get")
    \o May({"INPUT_OUT_OF_BOUNDS"})
    \o set_dev_mon_value("kMonFanCntrlEnable")
    \o set_dev_mon_value("kMonFanSpeed")

rsmi_dev_power_max_get ==
  Chk \o Lock \o get_power_mon_value("kPowerMaxGPUPower") \o Store
rsmi_dev_power_ave_get ==
  Chk \o Lock \o get_dev_mon_value_u("kMonPowerAve") \o Store

\* Only a sensor that is labelled PPT.
rsmi_dev_current_socket_power_get ==
  NullArg({"INVALID_ARGS"}) \o Chk \o Lock \o NoMonitor
    \o ReadFile("kMonPowerLabel") \o May({"NOT_SUPPORTED"})
    \o get_dev_mon_value_u("kMonPowerInput") \o Store

\* The current power, else the average; both results are written anyway.
rsmi_dev_power_get ==
  NullArg({"INVALID_ARGS"})
    \o Try(Call("rsmi_dev_current_socket_power_get")) \o Store
    \o When({"SUCCESS"}, "SUCCESS") \o Fallback
    \o Try(Call("rsmi_dev_power_ave_get")) \o Store
    \o When({"SUCCESS"}, "SUCCESS") \o Return("NOT_SUPPORTED")

rsmi_dev_energy_count_get ==
  NullArg({"INVALID_ARGS"}) \o Call("rsmi_dev_gpu_metrics_info_get") \o Store

rsmi_dev_power_cap_default_get ==
  Chk \o Lock \o get_dev_mon_value_u("kMonPowerCapDefault") \o Store
rsmi_dev_power_cap_get ==
  Chk \o Lock \o get_dev_mon_value_u("kMonPowerCap") \o Store
rsmi_dev_power_cap_range_get ==
  Chk \o Lock \o get_dev_mon_value_u("kMonPowerCapMax")
    \o get_dev_mon_value_u("kMonPowerCapMin") \o Store

\* Range check and write in one hold of the mutex.
rsmi_dev_power_cap_set ==
  Root \o Lock \o Call("rsmi_dev_power_cap_range_get")
    \o May({"INVALID_ARGS"}) \o set_dev_mon_value("kMonPowerCap")

\* Memory of the card: KFD is asked when the driver says zero.
rsmi_dev_memory_total_get ==
  Chk \o May({"INVALID_ARGS"}) \o Lock \o Try(get_dev_value_int("kDevMemTot"))
    \o StoreIfRead
    \o OneOf({OrElse,
              Node \o OneOf({Store \o Fallback \o Return("SUCCESS"), OrElse})})

\* The status of the first read is overwritten by that of the total.
rsmi_dev_memory_usage_get ==
  Chk \o May({"INVALID_ARGS"}) \o Lock \o Try(get_dev_value_int("kDevMemUsed"))
    \o StoreIfRead
    \o OneOf({OrElse,
              Node \o Try(get_dev_value_int("kDevMemTotVRAM"))
                \o OneOf({Store \o Fallback \o Return("SUCCESS"), OrElse})})

rsmi_dev_memory_busy_percent_get ==
  Chk \o Lock \o Try(get_dev_value_int("kDevMemBusyPercent"))
    \o May({"UNEXPECTED_DATA"}) \o Store \o OrElse
rsmi_dev_busy_percent_get ==
  Chk \o Lock \o get_dev_value_str("kDevUsage") \o Store
    \o May({"UNEXPECTED_DATA"})

rsmi_utilization_count_get ==
  NullArg({"INVALID_ARGS"}) \o Call("rsmi_dev_gpu_metrics_info_get")
    \o May({"INVALID_ARGS", "NOT_SUPPORTED"}) \o Store
rsmi_dev_activity_metric_get ==
  NullArg({"INVALID_ARGS"}) \o Call("rsmi_dev_gpu_metrics_info_get") \o Store

\* The pointer of the caller is replaced, not what it points to.
rsmi_dev_activity_avg_mm_get ==
  NullArg({"INVALID_ARGS"}) \o Call("rsmi_dev_activity_metric_get")

\* The pages are read without the mutex.
rsmi_dev_memory_reserved_pages_get ==
  Chk \o Try(GetDevValueVec("kDevMemPageBad"))
    \o Excuse({"UNEXPECTED_DATA"})
    \o When({"FILE_ERROR"}, "NOT_SUPPORTED") \o OrElse
    \o Store \o May({"UNKNOWN_ERROR", "INSUFFICIENT_SIZE"})
=============================================================================
