-------------------------- MODULE GpuMetricsProofs --------------------------
(***************************************************************************)
(* What the readers of gpu metrics get, proved for any number of threads   *)
(* and devices and any firmware.                                           *)
(***************************************************************************)
EXTENDS GpuMetrics, TLAPS

-----------------------------------------------------------------------------
(* The tables of a version.                                                *)

RangeOf(f) == {f[x] : x \in DOMAIN f}

LEMMA RangeSame ==
  ASSUME NEW F
  PROVE  DOMAIN Same(F) = F /\ RangeOf(Same(F)) = F
BY DEF Same, RangeOf

\* A copy of other fields adds what they take.
LEMMA RangeAdded ==
  ASSUME NEW f, NEW g, DOMAIN f \cap DOMAIN g = {}
  PROVE  /\ DOMAIN Also(f, g) = DOMAIN f \cup DOMAIN g
         /\ RangeOf(Also(f, g)) = RangeOf(f) \cup RangeOf(g)
<1>1. DOMAIN Also(f, g) = DOMAIN f \cup DOMAIN g
  BY DEF Also
<1>2. /\ \A x \in DOMAIN f : Also(f, g)[x] = f[x]
      /\ \A x \in DOMAIN g : Also(f, g)[x] = g[x]
  BY DEF Also
<1> QED
  BY <1>1, <1>2 DEF RangeOf

LEMMA Taken11 == RangeOf(copy_v11) = Struct_v11 /\ DOMAIN copy_v11 = Struct_v11
<1>1. /\ RangeOf(copy_v11) = DOMAIN copy_v11
      /\ DOMAIN copy_v11 =
           {"temperature_edge", "temperature_hotspot", "temperature_mem",
            "temperature_vrgfx", "temperature_vrsoc", "temperature_vrmem",
            "temperature_hbm", "average_gfx_activity", "average_umc_activity",
            "average_mm_activity", "average_socket_power", "energy_accumulator",
            "system_clock_counter", "average_gfxclk_frequency",
            "average_socclk_frequency", "average_uclk_frequency",
            "average_vclk0_frequency", "average_dclk0_frequency",
            "average_vclk1_frequency", "average_dclk1_frequency",
            "current_gfxclk", "current_socclk", "current_vclk0",
            "current_dclk0", "current_uclk", "current_vclk1", "current_dclk1",
            "throttle_status", "current_fan_speed", "pcie_link_width",
            "pcie_link_speed", "gfx_activity_acc", "mem_activity_acc"}
  BY RangeSame DEF copy_v11
<1> QED
  BY <1>1 DEF Struct_v11

\* A version that copies the fields F of its own besides those of another.
LEMMA SameAdded ==
  ASSUME NEW f, NEW F, DOMAIN f \cap F = {}, NEW h, h = Also(f, Same(F))
  PROVE  /\ DOMAIN h = DOMAIN f \cup F
         /\ RangeOf(h) = RangeOf(f) \cup F
<1>1. PICK g : g = Same(F)
  OBVIOUS
<1>2. DOMAIN g = F /\ RangeOf(g) = F
  BY <1>1, RangeSame
<1> QED
  BY <1>1, <1>2, RangeAdded

LEMMA Taken12 == RangeOf(copy_v12) = Struct_v12 /\ DOMAIN copy_v12 = Struct_v12
<1>1. PICK f, F : f = copy_v11 /\ F = {"firmware_timestamp"}
  OBVIOUS
<1>2. DOMAIN f \cap F = {}
  BY <1>1, Taken11 DEF Struct_v11
<1>3. copy_v12 = Also(f, Same(F)) /\ Struct_v12 = Struct_v11 \cup F
  BY <1>1 DEF copy_v12, Struct_v12
<1> QED
  BY <1>1, <1>2, <1>3, Taken11, SameAdded

LEMMA Taken13 == RangeOf(copy_v13) = Struct_v13
<1>1. PICK f, F, g : /\ f = copy_v12 /\ g = FirstOfArrays13
                     /\ F = {"voltage_soc", "voltage_gfx", "voltage_mem",
                             "indep_throttle_status"}
  OBVIOUS
<1>2. /\ DOMAIN g = {"current_gfxclks", "current_socclks", "current_vclk0s",
                     "current_dclk0s", "vcn_activity", "xcp_vcn_busy"}
      /\ RangeOf(g) = {"current_gfxclk", "current_socclk", "current_vclk0",
                       "current_dclk0", "average_mm_activity"}
  BY <1>1 DEF FirstOfArrays13, RangeOf
<1>3. PICK k : k = Also(Same(F), g)
  OBVIOUS
<1>4. DOMAIN k = F \cup DOMAIN g /\ RangeOf(k) = F \cup RangeOf(g)
  <2>1. PICK e : e = Same(F)
    OBVIOUS
  <2>2. DOMAIN e = F /\ RangeOf(e) = F
    BY <2>1, RangeSame
  <2>3. F \cap DOMAIN g = {}
    BY <1>1, <1>2
  <2> QED
    BY <1>3, <2>1, <2>2, <2>3, RangeAdded
<1>5. DOMAIN f \cap DOMAIN k = {}
  <2>1. DOMAIN f = Struct_v12
    BY <1>1, Taken12
  <2>2. Struct_v12 \cap F = {}
    BY <1>1 DEF Struct_v12, Struct_v11
  <2>3. Struct_v12 \cap DOMAIN g = {}
    BY <1>2 DEF Struct_v12, Struct_v11
  <2> QED
    BY <1>4, <2>1, <2>2, <2>3
<1>6. RangeOf(copy_v13) = Struct_v12 \cup RangeOf(k)
  <2>1. copy_v13 = Also(f, k)
    BY <1>1, <1>3 DEF copy_v13
  <2> QED
    BY <1>1, <1>5, <2>1, Taken12, RangeAdded
<1>7. RangeOf(g) \subseteq Struct_v12
  BY <1>2 DEF Struct_v12, Struct_v11
<1>8. Struct_v13 = Struct_v12 \cup F
  BY <1>1 DEF Struct_v13
<1> QED
  BY <1>4, <1>6, <1>7, <1>8

LEMMA TakenClocks ==
  /\ DOMAIN ClockArrays =
       {"current_gfxclks", "current_gfxclk", "current_socclks",
        "current_socclk", "current_vclk0s", "current_vclk0",
        "current_dclk0s", "current_dclk0", "current_vclk1", "current_dclk1",
        "current_uclk"}
  /\ RangeOf(ClockArrays) =
       {"current_gfxclk", "current_socclk", "current_vclk0", "current_dclk0",
        "current_uclk"}
<1> DEFINE D == {"current_gfxclks", "current_gfxclk", "current_socclks",
                 "current_socclk", "current_vclk0s", "current_vclk0",
                 "current_dclk0s", "current_dclk0", "current_vclk1",
                 "current_dclk1", "current_uclk"}
<1>1. DOMAIN ClockArrays = D
  BY DEF ClockArrays
<1>2. RangeOf(ClockArrays) = {ClockArrays[x] : x \in D}
  BY <1>1 DEF RangeOf
<1>3. /\ ClockArrays["current_gfxclks"] = "current_gfxclk"
      /\ ClockArrays["current_gfxclk"] = "current_gfxclk"
      /\ ClockArrays["current_socclks"] = "current_socclk"
      /\ ClockArrays["current_socclk"] = "current_socclk"
      /\ ClockArrays["current_vclk0s"] = "current_vclk0"
      /\ ClockArrays["current_vclk0"] = "current_vclk0"
  BY DEF ClockArrays
<1>4. /\ ClockArrays["current_dclk0s"] = "current_dclk0"
      /\ ClockArrays["current_dclk0"] = "current_dclk0"
      /\ ClockArrays["current_vclk1"] = "current_vclk0"
      /\ ClockArrays["current_dclk1"] = "current_dclk0"
      /\ ClockArrays["current_uclk"] = "current_uclk"
  BY DEF ClockArrays
<1>5. PICK c : c = ClockArrays
  OBVIOUS
<1>6. {c[x] : x \in D} =
        {"current_gfxclk", "current_socclk", "current_vclk0", "current_dclk0",
         "current_uclk"}
  BY <1>3, <1>4, <1>5
<1> QED
  BY <1>1, <1>2, <1>5, <1>6

LEMMA Taken14 ==
  /\ RangeOf(copy_v14) = Struct_v14
  /\ DOMAIN copy_v14 = CopiedSince14 \cup {"vcn_activity", "throttle_status"}
                         \cup DOMAIN ClockArrays
<1>1. PICK F, f, c : /\ F = CopiedSince14 \cup {"vcn_activity", "throttle_status"}
                     /\ f = Same(F) /\ c = ClockArrays
  OBVIOUS
<1>2. DOMAIN f = F /\ RangeOf(f) = F
  BY <1>1, RangeSame
<1>3. F \cap DOMAIN c = {}
  BY <1>1, TakenClocks DEF CopiedSince14
<1>4. copy_v14 = Also(f, c)
  BY <1>1 DEF copy_v14
<1>5. RangeOf(copy_v14) = F \cup RangeOf(c) /\ DOMAIN copy_v14 = F \cup DOMAIN c
  BY <1>2, <1>3, <1>4, RangeAdded
<1>6. F \cup RangeOf(c) = Struct_v14
  BY <1>1, TakenClocks DEF Struct_v14, CopiedSince14
<1> QED
  BY <1>1, <1>5, <1>6

LEMMA Taken15 == RangeOf(copy_v15) = Struct_v15
<1>1. PICK f, F : /\ f = copy_v14
                  /\ F = {"jpeg_activity", "pcie_nak_sent_count_acc",
                          "pcie_nak_rcvd_count_acc"}
  OBVIOUS
<1>2. DOMAIN f \cap F = {}
  <2>1. CopiedSince14 \cap F = {}
    BY <1>1 DEF CopiedSince14
  <2>2. DOMAIN ClockArrays \cap F = {}
    BY <1>1, TakenClocks
  <2>3. {"vcn_activity", "throttle_status"} \cap F = {}
    BY <1>1
  <2> QED
    BY <1>1, <2>1, <2>2, <2>3, Taken14
<1>3. copy_v15 = Also(f, Same(F)) /\ Struct_v15 = Struct_v14 \cup F
  BY <1>1 DEF copy_v15, Struct_v15
<1> QED
  BY <1>1, <1>2, <1>3, Taken14, SameAdded

\* The fields of version 1.6 that are neither clocks nor taken anew.
Copied16 ==
  CopiedSince14 \cup
    {"pcie_nak_sent_count_acc", "pcie_nak_rcvd_count_acc",
     "accumulation_counter", "prochot_residency_acc",
     "ppt_residency_acc", "socket_thm_residency_acc",
     "vr_thm_residency_acc", "hbm_thm_residency_acc",
     "num_partition", "xcp_gfx_busy_inst", "xcp_jpeg_busy",
     "xcp_vcn_busy", "xcp_gfx_busy_acc",
     "pcie_lc_perf_other_end_recovery"}

LEMMA Taken16 ==
  /\ RangeOf(copy_v16) = Struct_v16
  /\ DOMAIN copy_v16 = Copied16 \cup DOMAIN ClockArrays
                         \cup {"vcn_activity", "jpeg_activity"}
<1>1. PICK f, c, g, k : /\ f = Same(Copied16) /\ c = ClockArrays
                        /\ g = Activities16 /\ k = Also(c, g)
  OBVIOUS
<1>2. DOMAIN f = Copied16 /\ RangeOf(f) = Copied16
  BY <1>1, RangeSame
<1>3. /\ DOMAIN g = {"vcn_activity", "jpeg_activity"}
      /\ RangeOf(g) = {"xcp_vcn_busy", "xcp_jpeg_busy"}
  BY <1>1 DEF Activities16, RangeOf
<1>4. DOMAIN k = DOMAIN c \cup DOMAIN g /\ RangeOf(k) = RangeOf(c) \cup RangeOf(g)
  <2>1. DOMAIN c \cap DOMAIN g = {}
    BY <1>1, <1>3, TakenClocks
  <2> QED
    BY <1>1, <2>1, RangeAdded
<1>5. copy_v16 = Also(f, k)
  BY <1>1 DEF copy_v16, Copied16
<1>6. DOMAIN f \cap DOMAIN k = {}
  <2>1. Copied16 \cap DOMAIN c = {}
    BY <1>1, TakenClocks DEF Copied16, CopiedSince14
  <2>2. Copied16 \cap DOMAIN g = {}
    BY <1>3 DEF Copied16, CopiedSince14
  <2> QED
    BY <1>2, <1>4, <2>1, <2>2
<1>7. /\ RangeOf(copy_v16) = Copied16 \cup RangeOf(k)
      /\ DOMAIN copy_v16 = Copied16 \cup DOMAIN k
  BY <1>2, <1>5, <1>6, RangeAdded
<1>8. RangeOf(g) \subseteq Copied16
  BY <1>3 DEF Copied16
<1>9. Struct_v16 = Copied16 \cup RangeOf(c)
  <2>1. Struct_v15 \ {"vcn_activity", "jpeg_activity", "throttle_status"} =
          CopiedSince14 \cup RangeOf(c) \cup
            {"pcie_nak_sent_count_acc", "pcie_nak_rcvd_count_acc"}
    BY <1>1, TakenClocks DEF Struct_v15, Struct_v14, CopiedSince14
  <2> QED
    BY <2>1 DEF Struct_v16, Copied16
<1> QED
  BY <1>1, <1>3, <1>4, <1>7, <1>8, <1>9

LEMMA Taken17 == RangeOf(copy_v17) = Struct_v17
<1>1. PICK f, F : /\ f = copy_v16
                  /\ F = {"vram_max_bandwidth", "xgmi_link_status",
                          "xcp_gfx_below_host_limit_acc"}
  OBVIOUS
<1>2. DOMAIN f \cap F = {}
  <2>1. Copied16 \cap F = {}
    BY <1>1 DEF Copied16, CopiedSince14
  <2>2. DOMAIN ClockArrays \cap F = {}
    BY <1>1, TakenClocks
  <2>3. {"vcn_activity", "jpeg_activity"} \cap F = {}
    BY <1>1
  <2> QED
    BY <1>1, <2>1, <2>2, <2>3, Taken16
<1>3. copy_v17 = Also(f, Same(F)) /\ Struct_v17 = Struct_v16 \cup F
  BY <1>1 DEF copy_v17, Struct_v17
<1> QED
  BY <1>1, <1>2, <1>3, Taken16, SameAdded

LEMMA Rows11 == populate_v11 = Struct_v11
BY DEF populate_v11, Struct_v11
LEMMA Rows12 == populate_v12 = Struct_v12
BY Rows11 DEF populate_v12, Struct_v12
LEMMA Rows13 == populate_v13 = Struct_v13
BY Rows12 DEF populate_v13, Struct_v13
LEMMA Rows14 == populate_v14 = Struct_v14
BY DEF populate_v14, Struct_v14
LEMMA Rows15 == populate_v15 = Struct_v15
BY Rows14 DEF populate_v15, Struct_v15
LEMMA Rows16 == populate_v16 = Struct_v16
BY Rows15 DEF populate_v16, Struct_v16
LEMMA Rows17 == populate_v17 = Struct_v17
BY Rows16 DEF populate_v17, Struct_v17

(* Every version has its fields in all three places: the structure, the    *)
(* rows of a query, and what the public structure takes.                   *)
LEMMA TablesAgree ==
  \A v \in Versions : TakenBy(v) = Struct[v] /\ Rows[v] = Struct[v]
<1>1. \A v \in Versions : TakenBy(v) = RangeOf(Copy[v])
  BY DEF TakenBy, RangeOf
<1>2. /\ RangeOf(Copy["v11"]) = Struct["v11"] /\ Rows["v11"] = Struct["v11"]
      /\ RangeOf(Copy["v12"]) = Struct["v12"] /\ Rows["v12"] = Struct["v12"]
      /\ RangeOf(Copy["v13"]) = Struct["v13"] /\ Rows["v13"] = Struct["v13"]
      /\ RangeOf(Copy["v14"]) = Struct["v14"] /\ Rows["v14"] = Struct["v14"]
  BY Taken11, Taken12, Taken13, Taken14, Rows11, Rows12, Rows13, Rows14
     DEF Copy, Rows, Struct
<1>3. /\ RangeOf(Copy["v15"]) = Struct["v15"] /\ Rows["v15"] = Struct["v15"]
      /\ RangeOf(Copy["v16"]) = Struct["v16"] /\ Rows["v16"] = Struct["v16"]
      /\ RangeOf(Copy["v17"]) = Struct["v17"] /\ Rows["v17"] = Struct["v17"]
  BY Taken15, Taken16, Taken17, Rows15, Rows16, Rows17 DEF Copy, Rows, Struct
<1> QED
  BY <1>1, <1>2, <1>3 DEF Versions
-----------------------------------------------------------------------------
(* Types, and where a call of each function can be.                        *)

Header == "gpu_metrics_header_info_get"
Info == "gpu_metrics_info_get"
Query == "gpu_metrics_info_query"
Log == "metrics_log_get"

\* Of calls that read the table: from the header on, and with the copy.
Reading == {"reset", "factory", "read", "tail", "populate", "lookup", "logged"}
Phases == Reading \cup {"idle", "lock", "header", "copy", "returned"}

Part == [dev : Devices \cup {None}, by : Threads \cup {"old"}]
Tbl == [head : Part, tail : Part, ns : BOOLEAN]

TypeInv ==
  /\ version \in Firmware
  /\ ptr \in [Devices -> Versions \cup {None}]
  /\ table \in [Versions -> Tbl] /\ rows \in [Versions -> Tbl]
  /\ shown \in [Versions -> Devices \cup {None}]
  /\ mutex \in [Devices -> Threads \cup {None}]
  /\ pc \in [Threads -> Phases]
  /\ call \in [Threads -> (Devices \X Functions) \cup {NoCall}]
  /\ failed \in [Threads -> SUBSET {"partition", "read"}]
  /\ DOMAIN status = Threads /\ status = [t \in Threads |-> status[t]]
  /\ DOMAIN result = Threads /\ result = [t \in Threads |-> result[t]]

\* A call c of t, with the table of its device in version v, is at l.
StageAt(l, t, c, v) ==
  /\ l # "idle" => <<t, c[1], c[2]>> \in Calls
  /\ l \in Reading => v \in Versions /\ c[2] # Header
  /\ l \in {"lock", "copy"} => c[2] = Info
  /\ l = "lookup" => c[2] = Query
  /\ l = "logged" => c[2] = Log
StageOf(t) == StageAt(pc[t], t, call[t], version[call[t][1]])
StageInv == \A t \in Threads : StageOf(t)

\* A device has the object of its version or none.
PtrInv == \A d \in Devices : ptr[d] \in {None, version[d]}

\* What a call has to show for itself.
ShowsAll(t) ==
  Answered(t) =>
    /\ Op(t) = Info => result[t].fields = Struct[Ver(t)]
    /\ Op(t) = Log => result[t].fields = Struct[Ver(t)]
ShapeInv == TypeInv /\ StageInv /\ PtrInv /\ \A t \in Threads : ShowsAll(t)

\* The steps of a thread.
Acts(t) ==
  \/ \E d \in Devices, f \in Functions : Call(t, d, f)
  \/ Finish(t)
  \/ rsmi_dev_gpu_metrics_info_get(t)
  \/ dev_read_gpu_metrics_header_data(t)
  \/ ResetPtr(t)
  \/ amdgpu_metrics_factory(t)
  \/ CannotRead(t)
  \/ ReadHead(t)
  \/ ReadShort(t)
  \/ ReadTail(t)
  \/ populate_metrics_dynamic_tbl(t)
  \/ CopyOut(t)
  \/ run_internal_gpu_metrics_query(t)
  \/ dev_log_gpu_metrics(t)

\* A call that may be made.
LEMMA CallTypes ==
  ASSUME NEW t \in Threads, NEW d, NEW f, <<t, d, f>> \in Calls
  PROVE  d \in Devices /\ f \in Functions
<1>1. <<t, d, f>> \in Threads \X Devices \X Functions
  BY GpuMetricsAssumption DEF GpuMetricsAssumption
<1> QED
  BY <1>1

LEMMA StageTypes ==
  ASSUME TypeInv, StageInv, NEW t \in Threads, pc[t] # "idle"
  PROVE  Dev(t) \in Devices /\ Op(t) \in Functions /\ Ver(t) = version[Dev(t)]
<1>1. <<t, Dev(t), Op(t)>> \in Calls
  BY DEF StageInv, StageOf, StageAt, Dev, Op
<1>2. PICK d, f : d = Dev(t) /\ f = Op(t)
  OBVIOUS
<1> QED
  BY <1>1, <1>2, CallTypes DEF Ver

\* A return.
LEMMA ReturnTypes ==
  ASSUME TypeInv, NEW t \in Threads, Dev(t) \in Devices, NEW s, NEW r,
         Return(t, s, r)
  PROVE  /\ pc' \in [Threads -> Phases] /\ pc'[t] = "returned"
         /\ mutex' \in [Devices -> Threads \cup {None}]
         /\ DOMAIN status' = Threads /\ status' = [u \in Threads |-> status'[u]]
         /\ DOMAIN result' = Threads /\ result' = [u \in Threads |-> result'[u]]
         /\ status'[t] = s /\ result'[t] = r
BY DEF TypeInv, Return, Goto, Phases

\* A thread leaves the calls of the others alone.
LEMMA OthersKeep ==
  ASSUME TypeInv, NEW t \in Threads, Acts(t)
  PROVE  /\ version' = version
         /\ \A u \in Threads \ {t} :
              /\ pc'[u] = pc[u] /\ call'[u] = call[u] /\ failed'[u] = failed[u]
              /\ status'[u] = status[u] /\ result'[u] = result[u]
BY DEF TypeInv, Acts, Call, Finish, rsmi_dev_gpu_metrics_info_get,
       dev_read_gpu_metrics_header_data, ResetPtr, amdgpu_metrics_factory,
       CannotRead, ReadHead, ReadShort, ReadTail,
       populate_metrics_dynamic_tbl, CopyOut,
       run_internal_gpu_metrics_query, dev_log_gpu_metrics, AfterFailure,
       Return, Goto, shared, locals

LEMMA AgedTypes ==
  ASSUME NEW t \in Threads, NEW x \in Tbl
  PROVE  /\ Aged(t, x) \in Tbl
         /\ x.head.by # t => Aged(t, x).head = x.head
         /\ x.tail.by # t => Aged(t, x).tail = x.tail
         /\ Aged(t, x).ns = x.ns
<1> DEFINE P(p) == IF p.by = t THEN [p EXCEPT !.by = "old"] ELSE p
<1>1. x.head \in Part /\ x.tail \in Part /\ x.ns \in BOOLEAN
  BY DEF Tbl
<1>2. \A p \in Part : P(p) \in Part /\ (p.by # t => P(p) = p)
  BY DEF Part
<1>3. Aged(t, x) = [x EXCEPT !.head = P(x.head), !.tail = P(x.tail)]
  BY DEF Aged
<1> HIDE DEF P
<1>4. Aged(t, x) = [head |-> P(x.head), tail |-> P(x.tail), ns |-> x.ns]
  BY <1>3 DEF Tbl
<1> QED
  BY <1>1, <1>2, <1>4 DEF Tbl

LEMMA TypeStep ==
  ASSUME TypeInv, StageInv, PtrInv, NEW t \in Threads, Acts(t)
  PROVE  TypeInv'
<1>1. version' \in Firmware
  BY OthersKeep DEF TypeInv
<1>2. ASSUME NEW d \in Devices, NEW f \in Functions, Call(t, d, f)
      PROVE  TypeInv'
  BY <1>2 DEF TypeInv, Call, Goto, shared, Phases
<1>3. CASE Finish(t)
  <2>1. /\ table' \in [Versions -> Tbl]
        /\ rows' \in [Versions -> Tbl]
    BY <1>3, AgedTypes DEF TypeInv, Finish
  <2> QED
    BY <1>3, <2>1 DEF TypeInv, Finish, Goto, Phases
<1>4. ASSUME pc[t] # "idle"
      PROVE  /\ Dev(t) \in Devices /\ Op(t) \in Functions
             /\ Ver(t) = version[Dev(t)]
  BY <1>4, StageTypes
<1>5. CASE rsmi_dev_gpu_metrics_info_get(t)
  BY <1>4, <1>5 DEF TypeInv, rsmi_dev_gpu_metrics_info_get, Goto, Phases,
     shared
<1>6. ASSUME NEW s, AfterFailure(t, s), pc[t] # "idle", UNCHANGED <<ptr, shared>>
      PROVE  TypeInv'
  <2>1. CASE Op(t) = Info
    BY <1>6, <2>1 DEF TypeInv, AfterFailure, Goto, Phases, shared, Info
  <2>2. CASE Op(t) # Info
    <3>1. PICK r : Return(t, r, Nothing)
      BY <1>6, <2>2 DEF AfterFailure, Info
    <3>2. /\ pc' \in [Threads -> Phases]
          /\ mutex' \in [Devices -> Threads \cup {None}]
          /\ DOMAIN status' = Threads
          /\ status' = [u \in Threads |-> status'[u]]
          /\ DOMAIN result' = Threads
          /\ result' = [u \in Threads |-> result'[u]]
      BY <1>4, <1>6, <3>1, ReturnTypes
    <3> QED
      BY <1>6, <3>2 DEF TypeInv, AfterFailure, shared
  <2> QED
    BY <2>1, <2>2
<1>7. ASSUME NEW s, NEW r, Return(t, s, r), pc[t] # "idle",
             UNCHANGED <<version, ptr, shared, call, failed>>
      PROVE  TypeInv'
  <2>1. /\ pc' \in [Threads -> Phases]
        /\ mutex' \in [Devices -> Threads \cup {None}]
        /\ DOMAIN status' = Threads
        /\ status' = [u \in Threads |-> status'[u]]
        /\ DOMAIN result' = Threads
        /\ result' = [u \in Threads |-> result'[u]]
    BY <1>4, <1>7, ReturnTypes
  <2> QED
    BY <1>7, <2>1 DEF TypeInv, shared
<1>8. CASE dev_read_gpu_metrics_header_data(t)
  <2>1. CASE \E s : AfterFailure(t, s)
    BY <1>6, <1>8, <2>1 DEF dev_read_gpu_metrics_header_data
  <2>2. CASE Return(t, "SUCCESS", Nothing) /\ UNCHANGED <<version, call, failed>>
    BY <1>7, <1>8, <2>2 DEF dev_read_gpu_metrics_header_data
  <2>3. CASE /\ Goto(t, "reset")
             /\ UNCHANGED <<mutex, status, result, version, call, failed>>
    BY <1>8, <2>3 DEF TypeInv, dev_read_gpu_metrics_header_data, Goto, Phases,
       Reading, shared
  <2> QED
    BY <1>8, <2>1, <2>2, <2>3 DEF dev_read_gpu_metrics_header_data
<1>9. CASE ResetPtr(t)
  BY <1>4, <1>9 DEF TypeInv, ResetPtr, Goto, Phases, Reading, shared, locals
<1>10. CASE amdgpu_metrics_factory(t)
  <2>1. Ver(t) \in Versions
    BY <1>10 DEF StageInv, StageOf, StageAt, Ver, Dev, Op, amdgpu_metrics_factory, Reading
  <2> QED
    BY <1>4, <1>10, <2>1 DEF TypeInv, amdgpu_metrics_factory, Partition, Goto,
       Phases, Reading, locals
<1>11. CASE CannotRead(t)
  BY <1>6, <1>11 DEF CannotRead
<1>12. CASE ReadHead(t)
  <2>1. [dev |-> Dev(t), by |-> t] \in Part
    BY <1>4, <1>12 DEF Part, ReadHead
  <2>2. table' \in [Versions -> Tbl]
    <3>1. PICK p : p = [dev |-> Dev(t), by |-> t]
      OBVIOUS
    <3>2. table' = [table EXCEPT ![Ver(t)] =
                      [table[Ver(t)] EXCEPT !.head = p, !.ns = FALSE]]
      BY <1>12, <3>1 DEF TypeInv, ReadHead
    <3>3. \A x \in Tbl : [x EXCEPT !.head = p, !.ns = FALSE] \in Tbl
      BY <2>1, <3>1 DEF Tbl
    <3> QED
      BY <3>2, <3>3 DEF TypeInv
  <2> QED
    BY <1>12, <2>2 DEF TypeInv, ReadHead, Goto, Phases, Reading, locals
<1>13. CASE ReadShort(t)
  BY <1>6, <1>13 DEF ReadShort
<1>14. CASE ReadTail(t)
  <2>1. [dev |-> Dev(t), by |-> t] \in Part
    BY <1>4, <1>14 DEF Part, ReadTail
  <2>2. table' \in [Versions -> Tbl]
    BY ZenonT(30), <1>14, <2>1 DEF TypeInv, ReadTail, Tbl
  <2> QED
    BY <1>14, <2>2 DEF TypeInv, ReadTail, Goto, Phases, Reading, locals
<1>15. CASE populate_metrics_dynamic_tbl(t)
  <2>1. Ver(t) \in Versions /\ Op(t) # Header /\ Op(t) \in Functions
    BY <1>4, <1>15 DEF StageInv, StageOf, StageAt, Ver, Dev, Op, Reading,
       populate_metrics_dynamic_tbl
  <2>2. table' \in [Versions -> Tbl] /\ rows' \in [Versions -> Tbl]
    BY ZenonT(30), <1>15, <2>1 DEF TypeInv, populate_metrics_dynamic_tbl, Tbl
  <2>3. pc' \in [Threads -> Phases]
    BY <1>15, <2>1 DEF TypeInv, populate_metrics_dynamic_tbl, Goto, Phases,
       Reading, Functions, Header
  <2> QED
    BY <1>15, <2>2, <2>3 DEF TypeInv, populate_metrics_dynamic_tbl, locals
<1>16. CASE CopyOut(t)
  <2>1. \E s, r : Return(t, s, r)
    BY <1>16 DEF CopyOut
  <2> QED
    BY <1>7, <1>16, <2>1 DEF CopyOut
<1>17. CASE run_internal_gpu_metrics_query(t)
  <2>1. \E s, r : Return(t, s, r)
    BY <1>17 DEF run_internal_gpu_metrics_query
  <2> QED
    BY <1>7, <1>17, <2>1 DEF run_internal_gpu_metrics_query
<1>18. CASE dev_log_gpu_metrics(t)
  BY <1>7, <1>18 DEF dev_log_gpu_metrics
<1> QED
  BY <1>2, <1>3, <1>5, <1>8, <1>9, <1>10, <1>11, <1>12, <1>13, <1>14, <1>15,
     <1>16, <1>17, <1>18 DEF Acts

\* After a failed read the call returns, or makes the copy all the same.
LEMMA FailureParts ==
  ASSUME TypeInv, NEW t \in Threads, Dev(t) \in Devices, NEW s,
         AfterFailure(t, s)
  PROVE  /\ call' = call /\ version' = version
         /\ failed' = [failed EXCEPT ![t] = @ \cup {"read"}]
         /\ \/ pc'[t] = "copy" /\ Op(t) = Info /\ pc' = [pc EXCEPT ![t] = "copy"]
               /\ UNCHANGED <<mutex, status, result>>
            \/ pc'[t] = "returned" /\ Op(t) # Info /\ result'[t] = Nothing
               /\ \E r : Return(t, r, Nothing)
<1>1. CASE Op(t) = Info
  BY <1>1 DEF TypeInv, AfterFailure, Goto, Info
<1>2. CASE Op(t) # Info
  <2>1. PICK r : Return(t, r, Nothing)
    BY <1>2 DEF AfterFailure, Info
  <2>2. pc'[t] = "returned" /\ result'[t] = Nothing
    BY <2>1, ReturnTypes
  <2> QED
    BY <1>2, <2>1, <2>2 DEF AfterFailure
<1> QED
  BY <1>1, <1>2

LEMMA StageStep ==
  ASSUME TypeInv, StageInv, NEW t \in Threads, Acts(t)
  PROVE  StageInv'
<1>1. ASSUME NEW u \in Threads, u # t
      PROVE  StageAt(pc'[u], u, call'[u], version[call'[u][1]])
  <2>1. /\ pc'[u] = pc[u] /\ call'[u] = call[u] /\ version' = version
    BY <1>1, OthersKeep
  <2>2. StageOf(u)
    BY <1>1 DEF StageInv
  <2> QED
    BY <2>1, <2>2 DEF StageOf
<1> SUFFICES StageAt(pc'[t], t, call'[t], version[call'[t][1]])
  BY <1>1, OthersKeep DEF StageInv, StageOf
<1>2. StageOf(t)
  BY DEF StageInv
<1>3. ASSUME pc[t] # "idle"
      PROVE  /\ Dev(t) \in Devices /\ Op(t) \in Functions
             /\ <<t, Dev(t), Op(t)>> \in Calls
  BY <1>2, <1>3, StageTypes DEF StageInv, StageOf, StageAt, Dev, Op
<1>4. ASSUME pc[t] # "idle", pc'[t] = "returned", call' = call
      PROVE  StageAt(pc'[t], t, call'[t], version[call'[t][1]])
  BY <1>3, <1>4 DEF StageAt, Dev, Op, Reading
<1>5. ASSUME NEW d \in Devices, NEW f \in Functions, Call(t, d, f)
      PROVE  StageAt(pc'[t], t, call'[t], version[call'[t][1]])
  <2>1. call'[t] = <<d, f>> /\ <<t, d, f>> \in Calls
    BY <1>5 DEF TypeInv, Call
  <2>2. pc'[t] = IF f = Info THEN "lock" ELSE "header"
    BY <1>5 DEF TypeInv, Call, Goto, Info
  <2>3. call'[t][1] = d /\ call'[t][2] = f
    BY <2>1
  <2> QED
    BY <2>1, <2>2, <2>3 DEF StageAt, Dev, Op, Reading
<1>6. CASE Finish(t)
  <2>1. pc'[t] = "idle"
    BY <1>6 DEF TypeInv, Finish, Goto
  <2> QED
    BY <2>1 DEF StageAt, Reading
<1>7. CASE rsmi_dev_gpu_metrics_info_get(t)
  <2>1. pc'[t] = "header" /\ call' = call
    BY <1>7 DEF TypeInv, rsmi_dev_gpu_metrics_info_get, Goto
  <2> QED
    BY <1>3, <1>7, <2>1 DEF StageAt, Dev, Op, Reading,
       rsmi_dev_gpu_metrics_info_get
<1>8. ASSUME NEW s, AfterFailure(t, s), pc[t] # "idle"
      PROVE  StageAt(pc'[t], t, call'[t], version[call'[t][1]])
  <2>1. /\ call' = call
        /\ \/ pc'[t] = "copy" /\ Op(t) = Info
           \/ pc'[t] = "returned"
    BY <1>3, <1>8, FailureParts
  <2> QED
    BY <1>3, <1>8, <2>1 DEF StageAt, Dev, Op, Reading
<1>9. ASSUME NEW l, Goto(t, l), call' = call, version' = version,
             pc[t] # "idle",
             l \in Reading => Ver(t) \in Versions /\ Op(t) # Header,
             l \in {"lock", "copy"} => Op(t) = Info,
             l = "lookup" => Op(t) = Query,
             l = "logged" => Op(t) = Log
      PROVE  StageAt(pc'[t], t, call'[t], version[call'[t][1]])
  <2>1. pc'[t] = l
    BY <1>9 DEF TypeInv, Goto
  <2> QED
    BY <1>3, <1>9, <2>1 DEF StageAt, Dev, Op, Ver
<1>10. CASE dev_read_gpu_metrics_header_data(t)
  <2>1. CASE \E s : AfterFailure(t, s)
    BY <1>8, <1>10, <2>1 DEF dev_read_gpu_metrics_header_data
  <2>2. CASE Return(t, "SUCCESS", Nothing) /\ UNCHANGED <<version, call, failed>>
    <3>1. pc'[t] = "returned"
      BY <2>2 DEF TypeInv, Return, Goto
    <3> QED
      BY <1>4, <1>10, <2>2, <3>1 DEF dev_read_gpu_metrics_header_data
  <2>3. CASE /\ translate_header(Ver(t)) /\ Op(t) # Header
             /\ Goto(t, "reset") /\ UNCHANGED <<version, call>>
    <3>1. Ver(t) \in Versions /\ pc[t] # "idle"
      BY <1>10, <2>3 DEF translate_header, dev_read_gpu_metrics_header_data
    <3> QED
      BY <1>9, <2>3, <3>1 DEF Reading
  <2> QED
    BY <1>10, <2>1, <2>2, <2>3 DEF dev_read_gpu_metrics_header_data, Header
<1>11. ASSUME pc[t] \in Reading
       PROVE  Ver(t) \in Versions /\ Op(t) # Header /\ pc[t] # "idle"
  BY <1>2, <1>11 DEF StageOf, StageAt, Ver, Dev, Op, Reading
<1>12. CASE ResetPtr(t)
  <2>1. /\ Goto(t, "factory") /\ call' = call /\ version' = version
        /\ pc[t] \in Reading
    BY <1>12 DEF ResetPtr, locals, Reading
  <2> QED
    BY <1>9, <1>11, <2>1
<1>13. CASE amdgpu_metrics_factory(t)
  <2>1. /\ Goto(t, "read") /\ call' = call /\ version' = version
        /\ pc[t] \in Reading
    BY <1>13 DEF amdgpu_metrics_factory, locals, Reading
  <2> QED
    BY <1>9, <1>11, <2>1
<1>14. CASE CannotRead(t)
  BY <1>8, <1>14 DEF CannotRead
<1>15. CASE ReadHead(t)
  <2>1. /\ Goto(t, "tail") /\ call' = call /\ version' = version
        /\ pc[t] \in Reading
    BY <1>15 DEF ReadHead, locals, Reading
  <2> QED
    BY <1>9, <1>11, <2>1
<1>16. CASE ReadShort(t)
  BY <1>8, <1>16 DEF ReadShort
<1>17. CASE ReadTail(t)
  <2>1. /\ Goto(t, "populate") /\ call' = call /\ version' = version
        /\ pc[t] \in Reading
    BY <1>17 DEF ReadTail, locals, Reading
  <2> QED
    BY <1>9, <1>11, <2>1
<1>18. CASE populate_metrics_dynamic_tbl(t)
  <2>1. /\ call' = call /\ version' = version /\ pc[t] \in Reading
    BY <1>18 DEF populate_metrics_dynamic_tbl, locals, Reading
  <2>2. Ver(t) \in Versions /\ Op(t) \in {Info, Query, Log} /\ pc[t] # "idle"
    BY <1>3, <1>11, <2>1 DEF Functions, Header, Info, Query, Log
  <2>3. \/ Op(t) = Info /\ Goto(t, "copy")
        \/ Op(t) = Query /\ Goto(t, "lookup")
        \/ Op(t) = Log /\ Goto(t, "logged")
    BY <1>18, <2>2 DEF populate_metrics_dynamic_tbl, Info, Query, Log
  <2> QED
    BY <1>9, <1>11, <2>1, <2>2, <2>3
<1>19. CASE CopyOut(t)
  <2>1. pc'[t] = "returned" /\ call' = call /\ pc[t] # "idle"
    BY <1>19 DEF TypeInv, CopyOut, Return, Goto
  <2> QED
    BY <1>4, <2>1
<1>20. CASE run_internal_gpu_metrics_query(t)
  <2>1. pc'[t] = "returned" /\ call' = call /\ pc[t] # "idle"
    BY <1>20 DEF TypeInv, run_internal_gpu_metrics_query, Return, Goto
  <2> QED
    BY <1>4, <2>1
<1>21. CASE dev_log_gpu_metrics(t)
  <2>1. pc'[t] = "returned" /\ call' = call /\ pc[t] # "idle"
    BY <1>21 DEF TypeInv, dev_log_gpu_metrics, Return, Goto
  <2> QED
    BY <1>4, <2>1
<1> QED
  BY <1>5, <1>6, <1>7, <1>10, <1>12, <1>13, <1>14, <1>15, <1>16, <1>17, <1>18,
     <1>19, <1>20, <1>21 DEF Acts
LEMMA PtrStep ==
  ASSUME TypeInv, StageInv, PtrInv, NEW t \in Threads, Acts(t)
  PROVE  PtrInv'
<1>1. version' = version
  BY OthersKeep
<1>2. CASE ResetPtr(t) \/ amdgpu_metrics_factory(t)
  <2>1. Dev(t) \in Devices /\ Ver(t) = version[Dev(t)]
    BY <1>2, StageTypes DEF ResetPtr, amdgpu_metrics_factory
  <2>2. \E v \in {None, Ver(t)} : ptr' = [ptr EXCEPT ![Dev(t)] = v]
    BY <1>2 DEF ResetPtr, amdgpu_metrics_factory
  <2> QED
    BY <1>1, <2>1, <2>2 DEF TypeInv, PtrInv
<1>3. CASE ptr' = ptr
  BY <1>1, <1>3 DEF PtrInv
<1> QED
  BY <1>2, <1>3 DEF Acts, Call, Finish, rsmi_dev_gpu_metrics_info_get,
     dev_read_gpu_metrics_header_data, CannotRead, ReadHead, ReadShort,
     ReadTail, populate_metrics_dynamic_tbl, CopyOut,
     run_internal_gpu_metrics_query, dev_log_gpu_metrics

\* Where a call returns.
LEMMA ReturnSteps ==
  ASSUME TypeInv, StageInv, NEW t \in Threads, Acts(t), pc'[t] = "returned"
  PROVE  /\ call' = call
         /\ \/ result'[t] = Nothing
            \/ CopyOut(t)
            \/ run_internal_gpu_metrics_query(t)
            \/ dev_log_gpu_metrics(t)
<1>1. ASSUME NEW s, AfterFailure(t, s), pc[t] # "idle"
      PROVE  call' = call /\ result'[t] = Nothing
  <2>1. Dev(t) \in Devices
    BY <1>1, StageTypes
  <2>2. /\ call' = call
        /\ \/ pc'[t] = "copy"
           \/ result'[t] = Nothing
    BY <1>1, <2>1, FailureParts
  <2> QED
    BY <2>2
<1>2. CASE dev_read_gpu_metrics_header_data(t)
  <2>1. CASE \E s : AfterFailure(t, s)
    BY <1>1, <1>2, <2>1 DEF dev_read_gpu_metrics_header_data
  <2>2. CASE ~\E s : AfterFailure(t, s)
    <3>1. call' = call /\ (Return(t, "SUCCESS", Nothing) \/ Goto(t, "reset"))
      BY <1>2, <2>2 DEF dev_read_gpu_metrics_header_data
    <3>2. Goto(t, "reset") => pc'[t] = "reset"
      BY DEF TypeInv, Goto
    <3>3. Return(t, "SUCCESS", Nothing) => result'[t] = Nothing
      BY DEF TypeInv, Return
    <3> QED
      BY <3>1, <3>2, <3>3
  <2> QED
    BY <2>1, <2>2
<1>3. CASE CannotRead(t) \/ ReadShort(t)
  BY <1>1, <1>3 DEF CannotRead, ReadShort
<1>4. CASE CopyOut(t) \/ run_internal_gpu_metrics_query(t)
           \/ dev_log_gpu_metrics(t)
  BY <1>4 DEF CopyOut, run_internal_gpu_metrics_query, dev_log_gpu_metrics
<1>5. ASSUME NEW l, Goto(t, l), l # "returned"
      PROVE  FALSE
  BY <1>5 DEF TypeInv, Goto
<1>6. ASSUME NEW d \in Devices, NEW f \in Functions, Call(t, d, f)
      PROVE  FALSE
  BY <1>5, <1>6 DEF Call
<1>7. CASE Finish(t) \/ rsmi_dev_gpu_metrics_info_get(t) \/ ResetPtr(t)
           \/ amdgpu_metrics_factory(t) \/ ReadHead(t) \/ ReadTail(t)
  BY <1>5, <1>7 DEF Finish, rsmi_dev_gpu_metrics_info_get, ResetPtr,
     amdgpu_metrics_factory, ReadHead, ReadTail
<1>8. CASE populate_metrics_dynamic_tbl(t)
  <2>1. Op(t) \in {Info, Query, Log}
    <3>1. Op(t) \in Functions
      BY <1>8, StageTypes DEF populate_metrics_dynamic_tbl
    <3>2. Op(t) # Header
      BY <1>8 DEF StageInv, StageOf, StageAt, Op, Reading,
         populate_metrics_dynamic_tbl
    <3> QED
      BY <3>1, <3>2 DEF Functions, Header, Info, Query, Log
  <2>2. \/ Goto(t, "copy") \/ Goto(t, "lookup") \/ Goto(t, "logged")
    BY <1>8, <2>1 DEF populate_metrics_dynamic_tbl, Info, Query, Log
  <2> QED
    BY <1>5, <2>2
<1> QED
  BY <1>2, <1>3, <1>4, <1>6, <1>7, <1>8 DEF Acts


LEMMA ShowsStep ==
  ASSUME ShapeInv, NEW t \in Threads, Acts(t), NEW u \in Threads
  PROVE  ShowsAll(u)'
<1>1. TypeInv /\ StageInv /\ PtrInv /\ ShowsAll(u)
  BY DEF ShapeInv
<1>2. CASE u # t
  <2>1. /\ version' = version /\ pc'[u] = pc[u] /\ call'[u] = call[u]
        /\ status'[u] = status[u] /\ result'[u] = result[u]
    BY <1>1, <1>2, OthersKeep
  <2> QED
    BY <1>1, <2>1 DEF ShowsAll, Answered, Op, Ver, Dev
<1>3. CASE u = t
  <2> SUFFICES ASSUME pc'[t] = "returned", result'[t].fields # {}
               PROVE  /\ call'[t][2] = Info =>
                           result'[t].fields = Struct[version'[call'[t][1]]]
                      /\ call'[t][2] = Log =>
                           result'[t].fields = Struct[version'[call'[t][1]]]
    BY <1>3 DEF ShowsAll, Answered, Op, Ver, Dev
  <2>1. call' = call /\ version' = version
    BY <1>1, ReturnSteps, OthersKeep
  <2>2. result'[t] # Nothing
    BY DEF Nothing
  <2>3. CASE CopyOut(t)
    <3>1. /\ Dev(t) \in Devices /\ Ver(t) = version[Dev(t)]
      BY <1>1, <2>3, StageTypes DEF CopyOut
    <3>2. Op(t) = Info
      BY <1>1, <2>3 DEF StageInv, StageOf, StageAt, Op, CopyOut
    <3>3. ptr[Dev(t)] # None /\ result'[t].fields = TakenBy(ptr[Dev(t)])
      BY <1>1, <2>2, <2>3 DEF TypeInv, CopyOut, Return
    <3>4. ptr[Dev(t)] = Ver(t) /\ Ver(t) \in Versions
      BY <1>1, <3>1, <3>3 DEF TypeInv, PtrInv
    <3> QED
      BY <2>1, <3>1, <3>2, <3>3, <3>4, TablesAgree DEF Info, Log, Op, Dev, Ver
  <2>4. CASE run_internal_gpu_metrics_query(t)
    <3>1. Op(t) = Query
      BY <1>1, <2>4 DEF StageInv, StageOf, StageAt, Op,
         run_internal_gpu_metrics_query
    <3> QED
      BY <2>1, <3>1 DEF Op, Query, Info, Log
  <2>5. CASE dev_log_gpu_metrics(t)
    <3>1. Op(t) = Log /\ Ver(t) \in Versions
      BY <1>1, <2>5 DEF StageInv, StageOf, StageAt, Op, Ver, Dev, Reading,
         dev_log_gpu_metrics
    <3>2. result'[t].fields = Rows[Ver(t)]
      BY <1>1, <2>5 DEF TypeInv, dev_log_gpu_metrics, Return, Nothing
    <3> QED
      BY <2>1, <3>1, <3>2, TablesAgree DEF Info, Log, Op, Dev, Ver
  <2> QED
    BY <1>1, <2>2, <2>3, <2>4, <2>5, ReturnSteps
<1> QED
  BY <1>2, <1>3

LEMMA ShapeInvariant == Spec => []ShapeInv
<1>1. Init => ShapeInv
  <2> SUFFICES ASSUME Init
               PROVE  ShapeInv
    OBVIOUS
  <2>1. Blank \in Tbl
    BY DEF Blank, Tbl, Part, Unread
  <2>2. TypeInv
    BY <2>1 DEF Init, TypeInv, Phases
  <2>3. StageInv
    BY DEF Init, StageInv, StageOf, StageAt, Reading
  <2>4. PtrInv /\ \A t \in Threads : ShowsAll(t)
    BY DEF Init, PtrInv, ShowsAll, Answered
  <2> QED
    BY <2>2, <2>3, <2>4 DEF ShapeInv
<1>2. ShapeInv /\ [Next]_vars => ShapeInv'
  <2>1. ASSUME ShapeInv, NEW t \in Threads, Acts(t)
        PROVE  ShapeInv'
    <3>1. TypeInv' /\ StageInv' /\ PtrInv'
      BY <2>1, TypeStep, StageStep, PtrStep DEF ShapeInv
    <3>2. (\A u \in Threads : ShowsAll(u))'
      BY <2>1, ShowsStep
    <3> QED
      BY <3>1, <3>2 DEF ShapeInv
  <2>2. ASSUME ShapeInv, UNCHANGED vars
        PROVE  ShapeInv'
    BY <2>2 DEF ShapeInv, TypeInv, StageInv, StageOf, PtrInv, ShowsAll,
       Answered, Op, Ver, Dev, vars, shared, locals
  <2> QED
    BY <2>1, <2>2 DEF Next, Acts
<1> QED
  BY <1>1, <1>2, PTL DEF Spec

(* Whatever the version of the driver's table, every field of it can be    *)
(* had: the fields of the seven structures are in the rows of their        *)
(* versions and in the public copies, and a call shows those of the        *)
(* version of its device, whoever else reads and whatever reads failed.    *)
THEOREM ShowsEverything == Spec => []NothingHidden
<1>1. ShapeInv => NothingHidden
  BY DEF ShapeInv, ShowsAll, NothingHidden, Info, Log
<1> QED
  BY <1>1, ShapeInvariant, PTL

-----------------------------------------------------------------------------
(* What the threads read, when the callers keep to OneReader.              *)

\* An info get holds the mutex of its device until it returns.
HoldOf(t) ==
  Op(t) = Info /\ pc[t] \in Reading \cup {"header", "copy"}
    => mutex[Dev(t)] = t
HoldInv == \A t \in Threads : HoldOf(t)

\* A call of t on device d of version v, in which bad failed, is at l; the
\* object of d is p, and the object of v has the partition of s, the table x
\* and the rows y.
DataAt(l, bad, t, d, v, p, s, x, y) ==
  LET Mine == [dev |-> d, by |-> t]
      Own  == IF "partition" \in bad THEN None ELSE d IN
  /\ l \in {"read", "tail", "populate"} => p = v /\ s = Own
  /\ l \in {"tail", "populate"} => x.head = Mine
  /\ l = "populate" => x.tail = Mine
  /\ l = "copy" /\ "read" \notin bad
       => v \in Versions /\ p = v /\ s = Own /\ Sample(t, d, x)
  /\ l \in {"lookup", "logged"} => Sample(t, d, y)
DataOf(t) ==
  DataAt(pc[t], failed[t], t, Dev(t), Ver(t),
         ptr[Dev(t)], shown[Ver(t)], table[Ver(t)], rows[Ver(t)])
DataInv == \A t \in Threads : DataOf(t)

\* What an answer is made of.
GoodAnswer(t) ==
  /\ Answered(t) /\ Op(t) # Info => Sample(t, Dev(t), result[t].from)
  /\ Answered(t) /\ Op(t) = Info /\ "read" \notin failed[t]
       => Sample(t, Dev(t), result[t].from) /\ result[t].shown = Partition(t)

ReadInv == ShapeInv /\ HoldInv /\ DataInv /\ \A t \in Threads : GoodAnswer(t)

LEMMA NoRace ==
  ASSUME OneReader, NEW w \in Firmware, NEW t, NEW d, NEW f, NEW u, NEW e,
         NEW g, <<t, d, f>> \in Calls, <<u, e, g>> \in Calls, t # u,
         f # Header, g # Header, w[d] = w[e], w[d] \in Versions
  PROVE  d = e /\ f = Info /\ g = Info
BY DEF OneReader, Header, Info

LEMMA AloneAtTable ==
  ASSUME OneReader, TypeInv, StageInv, HoldInv,
         NEW t \in Threads, NEW u \in Threads, t # u,
         pc[t] \in Reading \cup {"copy"}, pc[u] \in Reading, Ver(t) = Ver(u)
  PROVE  FALSE
<1>1. PICK d, f, e, g : d = Dev(t) /\ f = Op(t) /\ e = Dev(u) /\ g = Op(u)
  OBVIOUS
<1>2. <<t, d, f>> \in Calls /\ f # Header
  BY <1>1 DEF StageInv, StageOf, StageAt, Dev, Op, Reading, Info, Header
<1>3. <<u, e, g>> \in Calls /\ g # Header /\ Ver(u) \in Versions
  BY <1>1 DEF StageInv, StageOf, StageAt, Dev, Op, Ver, Reading
<1>4. PICK w \in Firmware : w = version
  BY DEF TypeInv
<1>5. w[d] = Ver(t) /\ w[e] = Ver(u)
  BY <1>1, <1>4 DEF Ver
<1>6. d = e /\ f = Info /\ g = Info
  BY <1>2, <1>3, <1>4, <1>5, NoRace
<1>7. mutex[d] = t /\ mutex[e] = u
  BY <1>1, <1>6 DEF HoldInv, HoldOf
<1> QED
  BY <1>6, <1>7

LEMMA HoldStep ==
  ASSUME TypeInv, StageInv, HoldInv, NEW t \in Threads, Acts(t)
  PROVE  HoldInv'
<1> DEFINE Held == Reading \cup {"header", "copy"}
<1>0. ASSUME pc[t] # "idle"
      PROVE  Dev(t) \in Devices
  BY <1>0, StageTypes
<1>1. \A d \in Devices, u \in Threads \ {t} : mutex[d] = u => mutex'[d] = u
  <2>1. ASSUME NEW s, NEW r, Return(t, s, r), pc[t] # "idle"
        PROVE  \A d \in Devices, u \in Threads \ {t} :
                 mutex[d] = u => mutex'[d] = u
    BY <1>0, <2>1 DEF TypeInv, Return
  <2>2. CASE rsmi_dev_gpu_metrics_info_get(t)
    BY <1>0, <2>2, GpuMetricsAssumption DEF TypeInv, GpuMetricsAssumption,
       rsmi_dev_gpu_metrics_info_get
  <2>3. CASE mutex' = mutex
    BY <2>3
  <2>4. ASSUME NEW s, AfterFailure(t, s)
        PROVE  mutex' = mutex \/ \E r : Return(t, r, Nothing)
    BY <2>4 DEF AfterFailure
  <2>5. \/ mutex' = mutex
        \/ rsmi_dev_gpu_metrics_info_get(t)
        \/ pc[t] # "idle" /\ \E s, r : Return(t, s, r)
    <3>1. CASE dev_read_gpu_metrics_header_data(t)
      BY <2>4, <3>1 DEF dev_read_gpu_metrics_header_data
    <3>2. CASE CannotRead(t) \/ ReadShort(t)
      BY <2>4, <3>2 DEF CannotRead, ReadShort
    <3>3. CASE CopyOut(t) \/ run_internal_gpu_metrics_query(t)
                 \/ dev_log_gpu_metrics(t)
      BY <3>3 DEF CopyOut, run_internal_gpu_metrics_query, dev_log_gpu_metrics
    <3> QED
      BY <3>1, <3>2, <3>3 DEF Acts, Call, Finish, ResetPtr,
         amdgpu_metrics_factory, ReadHead, ReadTail,
         populate_metrics_dynamic_tbl
  <2> QED
    BY <2>1, <2>2, <2>3, <2>5
<1>2. ASSUME NEW u \in Threads, u # t
      PROVE  HoldOf(u)'
  <2>1. pc'[u] = pc[u] /\ call'[u] = call[u]
    BY <1>2, OthersKeep
  <2>2. SUFFICES ASSUME Op(u) = Info, pc[u] \in Held
                 PROVE  mutex'[Dev(u)] = u
    BY <2>1 DEF HoldOf, Op, Dev
  <2>3. mutex[Dev(u)] = u /\ Dev(u) \in Devices
    BY <2>2, StageTypes DEF HoldInv, HoldOf, Reading
  <2> QED
    BY <1>1, <1>2, <2>3
<1>3. HoldOf(t)'
  <2> SUFFICES ASSUME call'[t][2] = Info, pc'[t] \in Held
               PROVE  mutex'[call'[t][1]] = t
    BY DEF HoldOf, Op, Dev
  <2>1. CASE rsmi_dev_gpu_metrics_info_get(t)
    BY <1>0, <2>1 DEF TypeInv, rsmi_dev_gpu_metrics_info_get, Dev
  <2>2. CASE pc[t] \in Held /\ call' = call /\ mutex' = mutex
    BY <2>2 DEF HoldInv, HoldOf, Op, Dev
  <2>3. ASSUME NEW s, NEW r, Return(t, s, r)
        PROVE  FALSE
    <3>1. pc'[t] = "returned"
      BY <2>3 DEF TypeInv, Return, Goto
    <3> QED
      BY <3>1 DEF Reading
  <2>4. ASSUME NEW s, AfterFailure(t, s)
        PROVE  call' = call /\ mutex' = mutex
    BY <2>3, <2>4 DEF AfterFailure
  <2>5. CASE dev_read_gpu_metrics_header_data(t)
    BY <2>2, <2>3, <2>4, <2>5 DEF dev_read_gpu_metrics_header_data
  <2>6. CASE CannotRead(t) \/ ReadShort(t)
    BY <2>2, <2>4, <2>6 DEF CannotRead, ReadShort, Reading
  <2>7. CASE CopyOut(t) \/ run_internal_gpu_metrics_query(t)
               \/ dev_log_gpu_metrics(t)
    BY <2>3, <2>7 DEF CopyOut, run_internal_gpu_metrics_query,
       dev_log_gpu_metrics
  <2>8. CASE ResetPtr(t) \/ amdgpu_metrics_factory(t) \/ ReadHead(t)
               \/ ReadTail(t) \/ populate_metrics_dynamic_tbl(t)
    BY <2>2, <2>8 DEF ResetPtr, amdgpu_metrics_factory, ReadHead, ReadTail,
       populate_metrics_dynamic_tbl, locals, Reading
  <2>9. CASE Finish(t)
    BY <2>9 DEF TypeInv, Finish, Goto, Reading
  <2>10. ASSUME NEW d \in Devices, NEW f \in Functions, Call(t, d, f)
         PROVE  FALSE
    <3>1. call'[t] = <<d, f>> /\ pc'[t] = IF f = Info THEN "lock" ELSE "header"
      BY <2>10 DEF TypeInv, Call, Goto, Info
    <3> QED
      BY <3>1 DEF Reading
  <2> QED
    BY <2>1, <2>5, <2>6, <2>7, <2>8, <2>9, <2>10 DEF Acts
<1> QED
  BY <1>2, <1>3 DEF HoldInv

\* A step of another thread leaves what t is reading as it is.
LEMMA ViewKept ==
  ASSUME OneReader, TypeInv, StageInv, HoldInv, NEW u \in Threads, Acts(u),
         NEW t \in Threads, u # t, pc[t] \in Reading \cup {"copy"},
         NEW d, d = Dev(t), NEW v \in Versions, v = Ver(t)
  PROVE  /\ ptr'[d] = ptr[d] /\ shown'[v] = shown[v]
         /\ table[v].head.by = t => table'[v].head = table[v].head
         /\ table[v].tail.by = t => table'[v].tail = table[v].tail
         /\ table'[v].ns = table[v].ns
         /\ rows[v].head.by = t => rows'[v].head = rows[v].head
         /\ rows[v].tail.by = t => rows'[v].tail = rows[v].tail
         /\ rows'[v].ns = rows[v].ns
<1>1. CASE Finish(u)
  <2>1. PICK x, y : /\ x = table[v] /\ y = rows[v] /\ x \in Tbl /\ y \in Tbl
                    /\ table'[v] = Aged(u, x) /\ rows'[v] = Aged(u, y)
    BY <1>1 DEF TypeInv, Finish
  <2>2. ptr' = ptr /\ shown' = shown
    BY <1>1 DEF Finish
  <2> QED
    BY <2>1, <2>2, AgedTypes
<1>2. CASE UNCHANGED <<ptr, shared>>
  BY <1>2 DEF shared
<1>3. CASE \/ ResetPtr(u) \/ amdgpu_metrics_factory(u) \/ ReadHead(u)
           \/ ReadTail(u) \/ populate_metrics_dynamic_tbl(u)
  <2>1. pc[u] \in Reading
    BY <1>3 DEF ResetPtr, amdgpu_metrics_factory, ReadHead, ReadTail,
       populate_metrics_dynamic_tbl, Reading
  <2>2. Ver(u) # v
    BY <2>1, AloneAtTable
  <2>3. Dev(u) # d
    BY <2>2 DEF Ver
  <2>4. /\ ptr' = ptr \/ \E z : ptr' = [ptr EXCEPT ![Dev(u)] = z]
        /\ shown' = shown \/ \E z : shown' = [shown EXCEPT ![Ver(u)] = z]
        /\ table' = table \/ \E z : table' = [table EXCEPT ![Ver(u)] = z]
        /\ rows' = rows \/ \E z : rows' = [rows EXCEPT ![Ver(u)] = z]
    BY <1>3 DEF ResetPtr, amdgpu_metrics_factory, ReadHead, ReadTail,
       populate_metrics_dynamic_tbl, shared
  <2>5. d \in Devices
    BY StageTypes DEF Reading
  <2>6. /\ ptr'[d] = ptr[d] /\ shown'[v] = shown[v]
        /\ table'[v] = table[v] /\ rows'[v] = rows[v]
    BY <2>2, <2>3, <2>4, <2>5 DEF TypeInv
  <2> QED
    BY <2>6
<1> QED
  BY <1>1, <1>2, <1>3 DEF Acts, Call, rsmi_dev_gpu_metrics_info_get,
     dev_read_gpu_metrics_header_data, CannotRead, ReadShort, CopyOut,
     run_internal_gpu_metrics_query, dev_log_gpu_metrics

LEMMA DataKept ==
  ASSUME NEW l, NEW bad, NEW t, NEW d, NEW v,
         NEW p, NEW s, NEW x, NEW y, NEW xx, NEW yy,
         DataAt(l, bad, t, d, v, p, s, x, y),
         x.head.by = t => xx.head = x.head,
         x.tail.by = t => xx.tail = x.tail, xx.ns = x.ns,
         y.head.by = t => yy.head = y.head,
         y.tail.by = t => yy.tail = y.tail, yy.ns = y.ns
  PROVE  DataAt(l, bad, t, d, v, p, s, xx, yy)
BY DEF DataAt, Sample

LEMMA DataOthers ==
  ASSUME OneReader, TypeInv, StageInv, HoldInv, DataInv,
         NEW u \in Threads, Acts(u), NEW t \in Threads, u # t
  PROVE  DataOf(t)'
<1>1. /\ version' = version /\ pc'[t] = pc[t] /\ call'[t] = call[t]
      /\ failed'[t] = failed[t]
  BY OthersKeep
<1>2. PICK d, v, l, bad : /\ d = Dev(t) /\ v = Ver(t) /\ l = pc[t]
                          /\ bad = failed[t]
  OBVIOUS
<1> SUFFICES DataAt(l, bad, t, d, v, ptr'[d], shown'[v], table'[v], rows'[v])
  BY <1>1, <1>2 DEF DataOf, Dev, Ver
<1>3. DataAt(l, bad, t, d, v, ptr[d], shown[v], table[v], rows[v])
  BY <1>2 DEF DataInv, DataOf
<1>4. CASE l \in Reading \/ (l = "copy" /\ "read" \notin bad)
  <2>1. v \in Versions /\ pc[t] \in Reading \cup {"copy"}
    BY <1>2, <1>3, <1>4 DEF StageInv, StageOf, StageAt, Ver, Dev, DataAt
  <2>2. /\ ptr'[d] = ptr[d] /\ shown'[v] = shown[v]
        /\ table[v].head.by = t => table'[v].head = table[v].head
        /\ table[v].tail.by = t => table'[v].tail = table[v].tail
        /\ table'[v].ns = table[v].ns
        /\ rows[v].head.by = t => rows'[v].head = rows[v].head
        /\ rows[v].tail.by = t => rows'[v].tail = rows[v].tail
        /\ rows'[v].ns = rows[v].ns
    BY <1>2, <2>1, ViewKept
  <2> QED
    BY <1>3, <2>2, DataKept
<1>5. CASE ~(l \in Reading \/ (l = "copy" /\ "read" \notin bad))
  BY <1>5 DEF DataAt, Reading
<1> QED
  BY <1>4, <1>5

LEMMA DataOwn ==
  ASSUME TypeInv, StageInv, DataInv, NEW t \in Threads, Acts(t)
  PROVE  DataOf(t)'
<1>1. version' = version
  BY OthersKeep
<1>2. ASSUME pc'[t] \notin {"read", "tail", "populate", "copy", "lookup", "logged"}
      PROVE  DataOf(t)'
  BY <1>2 DEF DataOf, DataAt
<1>3. ASSUME pc[t] # "idle"
      PROVE  Dev(t) \in Devices
  BY <1>3, StageTypes
<1>4. ASSUME NEW s, AfterFailure(t, s), pc[t] # "idle"
      PROVE  DataOf(t)'
  <2>1. pc'[t] \in {"copy", "returned"} /\ "read" \in failed'[t]
    BY <1>3, <1>4, FailureParts DEF TypeInv
  <2> QED
    BY <2>1 DEF DataOf, DataAt
<1>5. ASSUME NEW s, NEW r, Return(t, s, r)
      PROVE  DataOf(t)'
  <2>1. pc'[t] = "returned"
    BY <1>5 DEF TypeInv, Return, Goto
  <2> QED
    BY <1>2, <2>1
<1>6. ASSUME NEW d \in Devices, NEW f \in Functions, Call(t, d, f)
      PROVE  DataOf(t)'
  <2>1. pc'[t] \in {"lock", "header"}
    BY <1>6 DEF TypeInv, Call, Goto
  <2> QED
    BY <1>2, <2>1
<1>7. CASE Finish(t) \/ rsmi_dev_gpu_metrics_info_get(t) \/ ResetPtr(t)
  <2>1. pc'[t] \in {"idle", "header", "factory"}
    BY <1>7 DEF TypeInv, Finish, rsmi_dev_gpu_metrics_info_get, ResetPtr, Goto
  <2> QED
    BY <1>2, <2>1
<1>8. CASE dev_read_gpu_metrics_header_data(t)
  <2>1. ASSUME Goto(t, "reset")
        PROVE  DataOf(t)'
    <3>1. pc'[t] = "reset"
      BY <2>1 DEF TypeInv, Goto
    <3> QED
      BY <1>2, <3>1
  <2> QED
    BY <1>4, <1>5, <1>8, <2>1 DEF dev_read_gpu_metrics_header_data
<1>9. CASE CannotRead(t) \/ ReadShort(t)
  BY <1>4, <1>9 DEF CannotRead, ReadShort
<1>10. CASE CopyOut(t) \/ run_internal_gpu_metrics_query(t)
              \/ dev_log_gpu_metrics(t)
  BY <1>5, <1>10 DEF CopyOut, run_internal_gpu_metrics_query,
     dev_log_gpu_metrics
<1>11. CASE \/ amdgpu_metrics_factory(t) \/ ReadHead(t) \/ ReadTail(t)
            \/ populate_metrics_dynamic_tbl(t)
  <2>1. PICK d, v : d = Dev(t) /\ v = Ver(t)
    OBVIOUS
  <2>2. d \in Devices /\ v \in Versions
    BY <1>3, <1>11, <2>1 DEF StageInv, StageOf, StageAt, Ver, Dev, Reading,
       amdgpu_metrics_factory, ReadHead, ReadTail, populate_metrics_dynamic_tbl
  <2>3. call' = call /\ failed' = failed
    BY <1>11 DEF amdgpu_metrics_factory, ReadHead, ReadTail,
       populate_metrics_dynamic_tbl, locals
  <2> SUFFICES DataAt(pc'[t], failed[t], t, d, v,
                      ptr'[d], shown'[v], table'[v], rows'[v])
    BY <1>1, <2>1, <2>3 DEF DataOf, Dev, Ver
  <2>4. DataAt(pc[t], failed[t], t, d, v, ptr[d], shown[v], table[v], rows[v])
    BY <2>1 DEF DataInv, DataOf
  <2>5. CASE amdgpu_metrics_factory(t)
    <3>1. pc'[t] = "read" /\ ptr'[d] = v /\ shown'[v] = Partition(t)
      BY <2>1, <2>2, <2>5 DEF TypeInv, amdgpu_metrics_factory, Goto
    <3> QED
      BY <2>1, <3>1 DEF DataAt, Partition
  <2>6. CASE ReadHead(t)
    <3>1. PICK m : m = [dev |-> d, by |-> t]
      OBVIOUS
    <3>2. pc'[t] = "tail" /\ ptr' = ptr /\ shown' = shown /\ pc[t] = "read"
      BY <2>6 DEF TypeInv, ReadHead, Goto
    <3>3. PICK x \in Tbl : x = table[v]
      BY <2>2 DEF TypeInv
    <3>4. table'[v] = [x EXCEPT !.head = m, !.ns = FALSE]
      BY <2>1, <2>2, <2>6, <3>1, <3>3 DEF TypeInv, ReadHead
    <3>5. table'[v].head = m
      BY <3>4 DEF Tbl
    <3> QED
      BY <2>4, <3>1, <3>2, <3>5 DEF DataAt
  <2>7. CASE ReadTail(t)
    <3>1. PICK m : m = [dev |-> d, by |-> t]
      OBVIOUS
    <3>2. pc'[t] = "populate" /\ ptr' = ptr /\ shown' = shown /\ pc[t] = "tail"
      BY <2>7 DEF TypeInv, ReadTail, Goto
    <3>3. PICK x \in Tbl : x = table[v]
      BY <2>2 DEF TypeInv
    <3>4. table'[v] = [x EXCEPT !.tail = m]
      BY <2>1, <2>2, <2>7, <3>1, <3>3 DEF TypeInv, ReadTail
    <3>5. table'[v].tail = m /\ table'[v].head = table[v].head
      BY <3>3, <3>4 DEF Tbl
    <3> QED
      BY <2>4, <3>1, <3>2, <3>5 DEF DataAt
  <2>8. CASE populate_metrics_dynamic_tbl(t)
    <3>1. PICK m : m = [dev |-> d, by |-> t]
      OBVIOUS
    <3>2. ptr' = ptr /\ shown' = shown /\ pc[t] = "populate"
      BY <2>8 DEF populate_metrics_dynamic_tbl
    <3>3. PICK x \in Tbl : x = table[v]
      BY <2>2 DEF TypeInv
    <3>4. table'[v] = [x EXCEPT !.ns = TRUE] /\ rows'[v] = [x EXCEPT !.ns = TRUE]
      BY <2>1, <2>2, <2>8, <3>3 DEF TypeInv, populate_metrics_dynamic_tbl
    <3>5. /\ ptr[d] = v /\ shown[v] = Partition(t)
          /\ x.head = m /\ x.tail = m
      BY <2>1, <2>4, <3>1, <3>2, <3>3 DEF DataAt, Partition
    <3>6. Sample(t, d, table'[v]) /\ Sample(t, d, rows'[v])
      BY <3>1, <3>4, <3>5 DEF Sample, Tbl
    <3>7. pc'[t] \in {"copy", "lookup", "logged"}
      <4>1. Op(t) \in Functions /\ Op(t) # Header
        BY <3>2, StageTypes DEF StageInv, StageOf, StageAt, Op, Reading
      <4>2. Op(t) \in {Info, Query, Log}
        BY <4>1 DEF Functions, Header, Info, Query, Log
      <4>3. \/ Goto(t, "copy") \/ Goto(t, "lookup") \/ Goto(t, "logged")
        BY <2>8, <4>2 DEF populate_metrics_dynamic_tbl, Info, Query, Log
      <4> QED
        BY <4>3 DEF TypeInv, Goto
    <3> QED
      BY <2>1, <2>2, <3>2, <3>5, <3>6, <3>7 DEF DataAt, Partition
  <2> QED
    BY <1>11, <2>5, <2>6, <2>7, <2>8
<1> QED
  BY <1>6, <1>7, <1>8, <1>9, <1>10, <1>11 DEF Acts

LEMMA AnswerStep ==
  ASSUME ShapeInv, HoldInv, DataInv, NEW t \in Threads, Acts(t),
         NEW u \in Threads, GoodAnswer(u)
  PROVE  GoodAnswer(u)'
<1>1. TypeInv /\ StageInv /\ PtrInv
  BY DEF ShapeInv
<1>2. CASE u # t
  <2>1. /\ version' = version /\ pc'[u] = pc[u] /\ call'[u] = call[u]
        /\ status'[u] = status[u] /\ result'[u] = result[u]
        /\ failed'[u] = failed[u]
    BY <1>1, <1>2, OthersKeep
  <2> QED
    BY <2>1 DEF GoodAnswer, Answered, Partition, Op, Dev
<1>3. CASE u = t
  <2> SUFFICES ASSUME pc'[t] = "returned", result'[t].fields # {}
               PROVE  /\ Op(t)' # Info => Sample(t, Dev(t)', result'[t].from)
                      /\ Op(t)' = Info /\ "read" \notin failed'[t]
                           => /\ Sample(t, Dev(t)', result'[t].from)
                              /\ result'[t].shown = Partition(t)'
    BY <1>3 DEF GoodAnswer, Answered
  <2>1. call' = call /\ result'[t] # Nothing
    BY <1>1, ReturnSteps DEF Nothing
  <2>2. PICK d, v : d = Dev(t) /\ v = Ver(t)
    OBVIOUS
  <2>3. DataAt(pc[t], failed[t], t, d, v, ptr[d], shown[v], table[v], rows[v])
    BY <2>2 DEF DataInv, DataOf
  <2>4. Op(t)' = Op(t) /\ Dev(t)' = d
    BY <2>1, <2>2 DEF Op, Dev
  <2>5. CASE CopyOut(t)
    <3>1. Op(t) = Info /\ failed' = failed /\ pc[t] = "copy"
      BY <1>1, <2>5 DEF StageInv, StageOf, StageAt, Op, CopyOut
    <3>2. ptr[d] # None
      BY <1>1, <2>1, <2>2, <2>5 DEF TypeInv, CopyOut, Return
    <3>3. PICK p : p = ptr[d]
      OBVIOUS
    <3>4. result'[t] = [fields |-> TakenBy(p), from |-> table[p],
                        shown |-> shown[p]]
      BY <1>1, <2>2, <2>5, <3>2, <3>3 DEF TypeInv, CopyOut, Return
    <3>5. "read" \notin failed[t]
            => p = v /\ shown[v] = Partition(t) /\ Sample(t, d, table[v])
      BY <2>2, <2>3, <3>1, <3>3 DEF DataAt, Partition
    <3>6. Partition(t)' = Partition(t)
      BY <2>1, <3>1 DEF Partition, Dev
    <3> QED
      BY <2>4, <3>1, <3>4, <3>5, <3>6
  <2>6. CASE run_internal_gpu_metrics_query(t)
    <3>1. Op(t) = Query /\ pc[t] = "lookup"
      BY <1>1, <2>6 DEF StageInv, StageOf, StageAt, Op,
         run_internal_gpu_metrics_query
    <3>2. PICK unit : result'[t] = IF unit \in Rows[v]
                         THEN [Nothing EXCEPT !.fields = {unit}, !.from = rows[v]]
                         ELSE Nothing
      BY <1>1, <2>2, <2>6 DEF TypeInv, run_internal_gpu_metrics_query, Return
    <3>3. result'[t].from = rows[v]
      BY <2>1, <3>2 DEF Nothing
    <3>4. Sample(t, d, rows[v])
      BY <2>3, <3>1 DEF DataAt
    <3> QED
      BY <2>4, <3>1, <3>3, <3>4 DEF Query, Info
  <2>7. CASE dev_log_gpu_metrics(t)
    <3>1. Op(t) = Log /\ pc[t] = "logged"
      BY <1>1, <2>7 DEF StageInv, StageOf, StageAt, Op, dev_log_gpu_metrics
    <3>2. result'[t] = [Nothing EXCEPT !.fields = Rows[v], !.from = rows[v]]
      BY <1>1, <2>2, <2>7 DEF TypeInv, dev_log_gpu_metrics, Return
    <3>3. result'[t].from = rows[v]
      BY <3>2 DEF Nothing
    <3>4. Sample(t, d, rows[v])
      BY <2>3, <3>1 DEF DataAt
    <3> QED
      BY <2>4, <3>1, <3>3, <3>4 DEF Log, Info
  <2> QED
    BY <1>1, <2>1, <2>5, <2>6, <2>7, ReturnSteps
<1> QED
  BY <1>2, <1>3

LEMMA ReadInvariant == ASSUME OneReader PROVE Spec => []ReadInv
<1>1. Init => HoldInv /\ DataInv /\ \A t \in Threads : GoodAnswer(t)
  BY DEF Init, HoldInv, HoldOf, DataInv, DataOf, DataAt, GoodAnswer, Answered,
     Reading
<1>2. /\ ShapeInv /\ HoldInv /\ DataInv /\ \A t \in Threads : GoodAnswer(t)
      /\ [Next]_vars
      => HoldInv' /\ DataInv' /\ (\A t \in Threads : GoodAnswer(t))'
  <2> SUFFICES ASSUME ShapeInv, HoldInv, DataInv,
                      \A t \in Threads : GoodAnswer(t), [Next]_vars
               PROVE  HoldInv' /\ DataInv' /\ (\A t \in Threads : GoodAnswer(t))'
    OBVIOUS
  <2>1. TypeInv /\ StageInv
    BY DEF ShapeInv
  <2>2. ASSUME NEW t \in Threads, Acts(t)
        PROVE  HoldInv' /\ DataInv' /\ (\A u \in Threads : GoodAnswer(u))'
    <3>1. HoldInv'
      BY <2>1, <2>2, HoldStep
    <3>2. ASSUME NEW u \in Threads
          PROVE  DataOf(u)' /\ GoodAnswer(u)'
      BY <2>1, <2>2, <3>2, DataOthers, DataOwn, AnswerStep
    <3> QED
      BY <3>1, <3>2 DEF DataInv
  <2>3. CASE UNCHANGED vars
    BY <2>3 DEF vars, shared, locals, HoldInv, HoldOf, DataInv, DataOf,
       GoodAnswer, Answered, Partition, Op, Ver, Dev
  <2> QED
    BY <2>2, <2>3 DEF Next, Acts
<1> QED
  BY <1>1, <1>2, ShapeInvariant, PTL DEF Spec, ReadInv

(* What a call delivers is one sample of its own device, read in the call, *)
(* with the partition of this device: a query and a log look at the status *)
(* of the read, and an info get whose reads succeed copies what it read.   *)
(* The hypothesis is about the callers, and the shared objects need it.    *)
THEOREM ReadersGetSamples ==
  ASSUME OneReader PROVE Spec => []AnswersAreSamples
<1>1. ReadInv => AnswersAreSamples
  BY DEF ReadInv, GoodAnswer, AnswersAreSamples, QueriesAreSamples,
     CopyIsSample, Info
<1> QED
  BY <1>1, ReadInvariant, PTL

=============================================================================
