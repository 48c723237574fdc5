---------------------------- MODULE RsmiIdentity ---------------------------
(***************************************************************************)
(* What a device is: error counters, ids, names and numbers of rocm_smi.cc *)
(***************************************************************************)
EXTENDS RsmiHelpers

rsmi_dev_ecc_enabled_get ==
  Chk \o Lock \o get_dev_value_line("kDevErrCntFeatures") \o Store
    \o May({"UNKNOWN_ERROR"})

\* The block must be one bit; a missing features file means no support.
rsmi_dev_ecc_status_get ==
  Chk \o May({"INVALID_ARGS"}) \o Lock
    \o Try(Call("rsmi_dev_ecc_enabled_get"))
    \o When({"FILE_ERROR"}, "NOT_SUPPORTED") \o OrElse \o Store

\* A short file overrides the status of the read.
rsmi_dev_ecc_count_get ==
  May({"NOT_SUPPORTED"}) \o Lock \o Try(GetDevValueVec("ErrCnt"))
    \o OneOf({May({"NOT_SUPPORTED"}), When({"FILE_ERROR"}, "NOT_SUPPORTED")})
    \o OrElse \o NullArg({"INVALID_ARGS"}) \o Store

rsmi_dev_pci_id_get ==
  Node \o ChkApi \o Lock \o Store \o Ignore(Call("rsmi_dev_node_id_get"))

\* stoi looks at the text before anyone looks at the status.
rsmi_topo_numa_affinity_get ==
  Chk \o Lock \o Try(get_dev_value_str("kDevNumaNode"))
    \o OneOf({Return("INTERNAL_EXCEPTION"), OrElse \o Store})

rsmi_dev_id_get                  == Chk \o get_id("kDevDevID")
rsmi_dev_xgmi_physical_id_get    == Chk \o get_id("kDevXGMIPhysicalID")
rsmi_dev_revision_get            == Chk \o get_id("kDevDevRevID")
rsmi_dev_sku_get                 == Chk \o get_id("kDevDevProdNum")
rsmi_dev_subsystem_id_get        == Chk \o get_id("kDevSubSysDevID")
rsmi_dev_vendor_id_get           == Chk \o get_id("kDevVendorID")
rsmi_dev_subsystem_vendor_id_get == Chk \o get_id("kDevSubSysVendorID")

rsmi_dev_firmware_version_get ==
  Chk \o May({"INVALID_ARGS"}) \o Lock \o get_dev_value_int("FwVersion")
    \o Store

rsmi_dev_name_get ==
  Chk \o May({"INVALID_ARGS"}) \o Lock
    \o OneOf({get_dev_name_from_file \o Truncated \o Return("SUCCESS"),
              Try(get_dev_value_line("kDevDevProdName")) \o Fallback
                \o get_dev_name_from_id("NAME_STR_DEVICE")})

\* The status of the fall-back is dropped.
rsmi_dev_brand_get ==
  Chk \o May({"INVALID_ARGS"}) \o Lock \o ReadFile("kDevVBiosVer")
    \o OneOf({Store \o Truncated,
              Ignore(PassTo("rsmi_dev_name_get"))})

rsmi_dev_vram_vendor_get ==
  Chk \o May({"INVALID_ARGS"}) \o Lock \o ReadFile("kDevVramVendor")
    \o Store \o Truncated

rsmi_dev_subsystem_name_get ==
  Chk \o May({"INVALID_ARGS"}) \o Lock
    \o get_dev_name_from_id("NAME_STR_SUBSYS")

rsmi_dev_drm_render_minor_get == Chk \o Lock \o get_dev_drm_render_minor

rsmi_dev_vendor_name_get ==
  Chk \o May({"INVALID_ARGS"}) \o Lock
    \o get_dev_name_from_id("NAME_STR_VENDOR")

\* The render node is opened through libdrm, external here.
rsmi_dev_market_name_get ==
  NullArg({"INVALID_ARGS"}) \o May({"INVALID_ARGS"}) \o Lock \o Dev
    \o May({"NOT_SUPPORTED", "DRM_ERROR"}) \o Store \o Truncated

rsmi_dev_vbios_version_get ==
  Chk \o May({"INVALID_ARGS"}) \o Lock \o ReadFile("kDevVBiosVer")
    \o Store \o Truncated
rsmi_dev_serial_number_get ==
  Chk \o May({"INVALID_ARGS"}) \o Lock \o get_dev_value_str("kDevSerialNumber")
    \o Store \o Truncated
rsmi_dev_pci_replay_counter_get ==
  Chk \o Lock \o get_dev_value_int("kDevPCIEReplayCount") \o Store
rsmi_dev_unique_id_get ==
  Chk \o Lock \o get_dev_value_int("kDevUniqueId") \o Store
rsmi_dev_xgmi_hive_id_get == NullArg({"INVALID_ARGS"}) \o Node \o Store

\* Of the library and the driver: no device, no mutex.
rsmi_num_monitor_devices == NullArg({"INVALID_ARGS"}) \o Store
rsmi_version_get         == NullArg({"INVALID_ARGS"}) \o Store

\* The release of the kernel answers when the driver has no version file.
rsmi_version_str_get ==
  NullArg({"INVALID_ARGS"}) \o May({"INVALID_ARGS"})
    \o Try(ReadFile("amdgpu/version")) \o Fallback
    \o May({"PERMISSION"}) \o Store \o Truncated

\* The numbers of the KFD node: a null result is answered after the look-up.
rsmi_dev_guid_get    == Node \o ReadFile("gpu_id") \o NullArg({"INVALID_ARGS"})
                          \o Store
rsmi_dev_node_id_get == Node \o ReadFile("node") \o NullArg({"INVALID_ARGS"})
                          \o Store \o May({"NOT_SUPPORTED"})
rsmi_dev_target_graphics_version_get ==
  NullArg({"INVALID_ARGS"}) \o Store \o Node
    \o May({"NOT_SUPPORTED", "UNEXPECTED_DATA", "INTERNAL_EXCEPTION"})
=============================================================================
