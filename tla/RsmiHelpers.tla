---------------------------- MODULE RsmiHelpers ----------------------------
(***************************************************************************)
(* The helpers of rocm_smi.cc and rocm_smi_utils.cc that reach a file of a *)
(* device, and the parsers that turn its text into a value: a parser is    *)
(* the set of statuses its exceptions become in handleException.           *)
(***************************************************************************)
EXTENDS RsmiOps

\* Statuses of text that cannot be parsed.
get_multiplier_from_str == {"UNEXPECTED_DATA"}
freq_string_to_int ==
  get_multiplier_from_str \cup
    {"INPUT_OUT_OF_BOUNDS", "UNEXPECTED_SIZE", "NO_DATA", "INTERNAL_EXCEPTION"}
od_value_pair_str_to_range == get_multiplier_from_str \cup {"INVALID_ARGS"}
get_id_name_str_from_line ==
  {"NO_DATA", "UNEXPECTED_DATA", "INTERNAL_EXCEPTION"}
bitfield_to_freq_string == {"INVALID_ARGS"}

\* Files of the device, through the index once more.
get_dev_value_str(f)  == Dev \o ReadFile(f)
get_dev_value_int(f)  == Dev \o ReadFile(f)
get_dev_value_line(f) == Dev \o ReadFile(f)
GetDevValueVec(f)     == Dev \o ReadFile(f)
set_dev_value(f)      == Dev \o WriteFile(f, "value")
set_dev_range(v)      == Dev \o WriteFile("kDevPowerODVoltage", v)

\* Files of the hwmon directory, which not every device has; the text must
\* be a number that fits.
NoMonitor == May({"NOT_SUPPORTED"})
NotANumber == May({"UNEXPECTED_DATA", "INTERNAL_EXCEPTION"})
get_dev_mon_value(f)   == Dev \o NoMonitor \o ReadFile(f) \o NotANumber
get_dev_mon_value_u(f) == Dev \o NoMonitor \o ReadFile(f) \o NotANumber
set_dev_mon_value(f)   == Dev \o NoMonitor \o WriteFile(f, "value")
\* The monitors of debugfs are looked for on demand; the check is of
\* monitor(), the use of power_monitor().
get_power_mon_value(f) ==
  NullArg({"INVALID_ARGS"}) \o Dev \o ReadFile("power monitors")
    \o NoMonitor \o OneOf({Crash, ReadFile(f)})

\* A 16 bit number in hexadecimal, under the mutex.
get_id(f) ==
  NullArg({"INVALID_ARGS"}) \o Lock \o get_dev_value_str(f)
    \o May({"UNEXPECTED_SIZE"}) \o Store

\* A table of frequencies, one line each; f->current must be one of them.
get_frequencies(f) ==
  NullArg({"INVALID_ARGS"}) \o GetDevValueVec(f)
    \o May({"NOT_YET_IMPLEMENTED"} \cup freq_string_to_int) \o Store

get_power_profiles ==
  GetDevValueVec("kDevPowerProfileMode") \o May({"UNEXPECTED_SIZE"})

get_od_clk_volt_info ==
  GetDevValueVec("kDevPowerODVoltage")
    \o May({"NOT_YET_IMPLEMENTED", "NO_DATA", "UNEXPECTED_DATA"}
             \cup freq_string_to_int)
    \o May(od_value_pair_str_to_range) \o Store

\* The number of regions is left at zero.
get_od_clk_volt_curve_regions ==
  NullArg({"INVALID_ARGS"}) \o GetDevValueVec("kDevPowerODVoltage")
    \o May({"NOT_YET_IMPLEMENTED"}) \o Store

\* Another preset: the level becomes manual before the profile is written.
set_power_profile ==
  May({"INPUT_OUT_OF_BOUNDS"}) \o get_power_profiles
    \o May({"INPUT_OUT_OF_BOUNDS"})
    \o Call("rsmi_dev_perf_level_set_v1")
    \o set_dev_value("kDevPowerProfileMode")

topo_get_numa_node_number == Node \o Store

\* Names: the product name file, else the ids looked up in pci.ids, else
\* the id in hexadecimal.  A copied name may be cut.
Truncated == May({"INSUFFICIENT_SIZE"})
get_backup_name == Store \o Truncated
get_dev_name_from_file == get_dev_value_line("kDevDevProdName") \o Store
get_dev_name_from_id(typ) ==
  Call("rsmi_dev_vendor_id_get")
    \o (IF typ = "NAME_STR_VENDOR" THEN <<>> ELSE Call("rsmi_dev_id_get"))
    \o (IF typ # "NAME_STR_SUBSYS" THEN <<>>
        ELSE Call("rsmi_dev_subsystem_vendor_id_get")
               \o Call("rsmi_dev_subsystem_id_get"))
    \o May(get_id_name_str_from_line)
    \o OneOf({get_backup_name, Store \o Truncated})

get_dev_drm_render_minor == Dev \o Store \o May({"INIT_ERROR"})
=============================================================================
