----------------------------- MODULE GpuMetrics -----------------------------
(***************************************************************************)
(* Threads of one process read the gpu metrics of devices.                 *)
(*                                                                         *)
(* A device reads the header of its table and keeps a pointer to the       *)
(* object of its version; the objects come from a table of the library     *)
(* with one object for each version, so two devices of one version share   *)
(* the binary table, the rows of the queries and the partition.  The mutex *)
(* of a device is taken by rsmi_dev_gpu_metrics_info_get only.             *)
(*                                                                         *)
(* A part of a table says which device it was read from and by whom: a     *)
(* thread in its present call, or "old".  A read fills the head, then the  *)
(* tail, so that another thread can see it half done and a read that comes *)
(* up short leaves a mixture.  The size the firmware gives in the header   *)
(* is taken to be that of the structure of its version.                    *)
(***************************************************************************)
EXTENDS GpuMetricsTables, FiniteSets

CONSTANTS
  Threads,
  Devices,
  Firmware,    \* the versions the devices may have: functions on Devices
  Calls        \* the calls a thread makes: <<thread, device, function>>

Functions == {"gpu_metrics_info_get", "gpu_metrics_header_info_get",
              "gpu_metrics_info_query", "metrics_log_get"}

None == "none"

GpuMetricsAssumption ==
  /\ Calls \subseteq Threads \X Devices \X Functions
  /\ \A f \in Firmware : DOMAIN f = Devices
  /\ None \notin Threads \cup Devices /\ "old" \notin Threads
ASSUME GpuMetricsAssumption

VARIABLES
  version,     \* the version of the driver's table
  ptr,         \* m_gpu_metrics_ptr of a device: a version or None
  table,       \* m_gpu_metrics_tbl of the object of a version
  rows,        \* its m_metrics_dynamic_tbl
  shown,       \* the device whose partition is in its m_partition_id, or None
  mutex,       \* the holder of the mutex of a device, or None
  pc,          \* where a thread is
  call,        \* the device and the function of its call
  failed,      \* what failed in this call: the "partition" id, a "read"
  status,      \* what its last call returned
  result       \* and delivered

vars == <<version, ptr, table, rows, shown, mutex, pc,
          call, failed, status, result>>
shared == <<table, rows, shown>>
locals == <<call, failed, status, result>>

Unread == [dev |-> None, by |-> "old"]
Blank == [head |-> Unread, tail |-> Unread, ns |-> TRUE]

\* What a call delivers: the fields, the parts they are from and the device
\* whose partition is shown, None for the first partition of a device that
\* did not say which one it is.
Nothing == [fields |-> {}, from |-> Blank, shown |-> None]

NoCall == <<None, None>>
Dev(t) == call[t][1]
Op(t) == call[t][2]
Ver(t) == version[Dev(t)]

Init ==
  /\ version \in Firmware
  /\ ptr = [d \in Devices |-> None]
  /\ table = [v \in Versions |-> Blank]
  /\ rows = [v \in Versions |-> Blank]
  /\ shown = [v \in Versions |-> None]
  /\ mutex = [d \in Devices |-> None]
  /\ pc = [t \in Threads |-> "idle"]
  /\ call = [t \in Threads |-> NoCall]
  /\ failed = [t \in Threads |-> {}]
  /\ status = [t \in Threads |-> "none"]
  /\ result = [t \in Threads |-> Nothing]

-----------------------------------------------------------------------------
(* Steps                                                                   *)

Goto(t, l) == pc' = [pc EXCEPT ![t] = l]

\* The call returns s and delivers r; DEVICE_MUTEX is given back.
Return(t, s, r) ==
  /\ Goto(t, "returned")
  /\ status' = [status EXCEPT ![t] = s]
  /\ result' = [result EXCEPT ![t] = r]
  /\ mutex' = IF mutex[Dev(t)] = t THEN [mutex EXCEPT ![Dev(t)] = None]
              ELSE mutex

Call(t, d, f) ==
  /\ pc[t] = "idle"
  /\ <<t, d, f>> \in Calls
  /\ call' = [call EXCEPT ![t] = <<d, f>>]
  /\ Goto(t, IF f = "gpu_metrics_info_get" THEN "lock" ELSE "header")
  /\ UNCHANGED <<version, ptr, shared, mutex, failed,
                 status, result>>

\* What t read in the call that ends is old now.
Aged(t, x) ==
  LET Part(p) == IF p.by = t THEN [p EXCEPT !.by = "old"] ELSE p
  IN  [x EXCEPT !.head = Part(@), !.tail = Part(@)]

\* The caller has seen what the call delivered.
Finish(t) ==
  /\ pc[t] = "returned"
  /\ Goto(t, "idle")
  /\ call' = [call EXCEPT ![t] = NoCall]
  /\ failed' = [failed EXCEPT ![t] = {}]
  /\ status' = [status EXCEPT ![t] = "none"]
  /\ result' = [result EXCEPT ![t] = Nothing]
  /\ table' = [v \in Versions |-> Aged(t, table[v])]
  /\ rows' = [v \in Versions |-> Aged(t, rows[v])]
  /\ UNCHANGED <<version, ptr, shown, mutex>>
\* rsmi_dev_gpu_metrics_info_get: the mutex, the partition id, which is 0 when
\* rsmi_dev_partition_id_get fails, then setup_gpu_metrics_reading through
\* dev_log_gpu_metrics and the copy; no status but that of the copy is looked
\* at.
rsmi_dev_gpu_metrics_info_get(t) ==
  /\ pc[t] = "lock"
  /\ mutex[Dev(t)] = None
  /\ mutex' = [mutex EXCEPT ![Dev(t)] = t]
  /\ \E F \in SUBSET {"partition"} : failed' = [failed EXCEPT ![t] = F]
  /\ Goto(t, "header")
  /\ UNCHANGED <<version, ptr, shared, call, status, result>>

\* mutant: a query looks at the rows whatever became of the read
AfterFailure_unchecked(t, s) ==
  /\ failed' = [failed EXCEPT ![t] = @ \cup {"read"}]
  /\ IF Op(t) = "gpu_metrics_header_info_get" THEN Return(t, s, Nothing)
     ELSE /\ Goto(t, IF Op(t) = "gpu_metrics_info_query" /\ Ver(t) \in Versions
                     THEN "lookup" ELSE "copy")
          /\ UNCHANGED <<mutex, status, result>>
  /\ UNCHANGED <<version, call>>

\* How a call goes on when its read failed with s: the public copy is made
\* all the same.
AfterFailure(t, s) ==
  /\ failed' = [failed EXCEPT ![t] = @ \cup {"read"}]
  /\ IF Op(t) = "gpu_metrics_info_get"
     THEN Goto(t, "copy") /\ UNCHANGED <<mutex, status, result>>
     ELSE Return(t, IF Op(t) = "gpu_metrics_header_info_get" THEN s
                    ELSE "UNEXPECTED_DATA", Nothing)
  /\ UNCHANGED <<version, call>>
\* translate_header_to_flag_version, is_gpu_metrics_version_supported
translate_header(v) == v \in Versions

dev_read_gpu_metrics_header_data(t) ==
  /\ pc[t] = "header"
  /\ UNCHANGED <<ptr, shared>>
  /\ \/ AfterFailure(t, "FILE_ERROR")
     \/ /\ ~translate_header(Ver(t))
        /\ AfterFailure(t, "NOT_SUPPORTED")
     \/ /\ translate_header(Ver(t))
        /\ UNCHANGED <<version, call, failed>>
        /\ IF Op(t) = "gpu_metrics_header_info_get"
           THEN Return(t, "SUCCESS", Nothing)
           ELSE Goto(t, "reset") /\ UNCHANGED <<mutex, status, result>>

\* setup_gpu_metrics_reading drops the object before it asks for one.
ResetPtr(t) ==
  /\ pc[t] = "reset"
  /\ ptr' = [ptr EXCEPT ![Dev(t)] = None]
  /\ Goto(t, "factory")
  /\ UNCHANGED <<version, shared, mutex, locals>>

\* The device whose partition a call of t shows.
Partition(t) == IF "partition" \in failed[t] THEN None ELSE Dev(t)

\* The object of the version: one for all devices.
amdgpu_metrics_factory(t) ==
  /\ pc[t] = "factory"
  /\ ptr' = [ptr EXCEPT ![Dev(t)] = Ver(t)]
  /\ shown' = [shown EXCEPT ![Ver(t)] = Partition(t)]
  /\ Goto(t, "read")
  /\ UNCHANGED <<version, table, rows, mutex, locals>>

\* dev_read_gpu_metrics_all_data fails before it read anything ...
CannotRead(t) ==
  /\ pc[t] = "read"
  /\ AfterFailure(t, "FILE_ERROR")
  /\ UNCHANGED <<ptr, shared>>

\* ... or reads the first part of the table ...
ReadHead(t) ==
  /\ pc[t] = "read"
  /\ table' = [table EXCEPT ![Ver(t)].head = [dev |-> Dev(t), by |-> t],
                            ![Ver(t)].ns = FALSE]
  /\ Goto(t, "tail")
  /\ UNCHANGED <<version, ptr, rows, shown, mutex, locals>>

\* ... and no more ...
ReadShort(t) ==
  /\ pc[t] = "tail"
  /\ AfterFailure(t, "FILE_ERROR")
  /\ UNCHANGED <<ptr, shared>>

\* ... or all of it.
ReadTail(t) ==
  /\ pc[t] = "tail"
  /\ table' = [table EXCEPT ![Ver(t)].tail = [dev |-> Dev(t), by |-> t]]
  /\ Goto(t, "populate")
  /\ UNCHANGED <<version, ptr, rows, shown, mutex, locals>>

\* populate_metrics_dynamic_tbl: the timestamp of the firmware becomes
\* nanoseconds in the table itself, then the rows are made.
populate_metrics_dynamic_tbl(t) ==
  /\ pc[t] = "populate"
  /\ table' = [table EXCEPT ![Ver(t)].ns = TRUE]
  /\ rows' = [rows EXCEPT ![Ver(t)] = [table[Ver(t)] EXCEPT !.ns = TRUE]]
  /\ Goto(t, CASE Op(t) = "gpu_metrics_info_get"   -> "copy"
               [] Op(t) = "gpu_metrics_info_query" -> "lookup"
               [] Op(t) = "metrics_log_get"        -> "logged")
  /\ UNCHANGED <<version, ptr, shown, mutex, locals>>

\* dev_copy_internal_to_external_metrics
CopyOut(t) ==
  /\ pc[t] = "copy"
  /\ IF ptr[Dev(t)] = None THEN Return(t, "UNEXPECTED_DATA", Nothing)
     ELSE LET v == ptr[Dev(t)]
          IN  Return(t, "SUCCESS", [fields |-> TakenBy(v), from |-> table[v],
                                    shown |-> shown[v]])
  /\ UNCHANGED <<version, ptr, shared, call, failed>>

\* run_internal_gpu_metrics_query looks for the row; a row that is not there
\* leaves the SUCCESS of the read, and the caller's value as it was.
run_internal_gpu_metrics_query(t) ==
  /\ pc[t] = "lookup"
  /\ \E unit \in MetricUnits :
       Return(t, "SUCCESS",
              IF unit \in Rows[Ver(t)]
              THEN [Nothing EXCEPT !.fields = {unit}, !.from = rows[Ver(t)]]
              ELSE Nothing)
  /\ UNCHANGED <<version, ptr, shared, call, failed>>

\* dev_log_gpu_metrics prints the rows.
dev_log_gpu_metrics(t) ==
  /\ pc[t] = "logged"
  /\ Return(t, "SUCCESS", [Nothing EXCEPT !.fields = Rows[Ver(t)],
                                          !.from = rows[Ver(t)]])
  /\ UNCHANGED <<version, ptr, shared, call, failed>>

Next ==
  \E t \in Threads :
    \/ \E d \in Devices, f \in Functions : Call(t, d, f)
    \/ Finish(t)
    \/ rsmi_dev_gpu_metrics_info_get(t)
    \/ dev_read_gpu_metrics_header_data(t)
    \/ ResetPtr(t)
    \/ amdgpu_metrics_factory(t)
    \/ CannotRead(t)
    \/ ReadHead(t)
    \/ ReadShort(t)
    \/ ReadTail(t)
    \/ populate_metrics_dynamic_tbl(t)
    \/ CopyOut(t)
    \/ run_internal_gpu_metrics_query(t)
    \/ dev_log_gpu_metrics(t)

Spec == Init /\ [][Next]_vars

\* The mutex of a device is no mutex of its version's object, and a query or a
\* log takes none.  So threads that read tables of one version are a race,
\* unless all of them read one device, with rsmi_dev_gpu_metrics_info_get.
OneReader ==
  \A f \in Firmware : \A c, k \in Calls :
    /\ c[1] # k[1]
    /\ "gpu_metrics_header_info_get" \notin {c[3], k[3]}
    /\ f[c[2]] = f[k[2]] /\ f[c[2]] \in Versions
    => c[2] = k[2] /\ c[3] = "gpu_metrics_info_get"
         /\ k[3] = "gpu_metrics_info_get"

-----------------------------------------------------------------------------
(* Properties                                                              *)

\* A complete sample of device d, read by t in its present call.
Sample(t, d, x) ==
  /\ x.head = [dev |-> d, by |-> t]
  /\ x.tail = x.head
  /\ x.ns

Answered(t) ==
  pc[t] = "returned" /\ status[t] = "SUCCESS" /\ result[t].fields # {}

\* A query or a log that delivers something delivers one complete sample of
\* its device, read in the call: the status of the read is looked at, and no
\* other device or earlier call shows through the shared object.
QueriesAreSamples ==
  \A t \in Threads :
    Answered(t) /\ Op(t) # "gpu_metrics_info_get"
      => Sample(t, Dev(t), result[t].from)

\* The public structure holds one complete sample of its device, read in the
\* call, unless a read of the call failed, with the activities of the partition
\* that this device said to be, or of its first one when it did not say.
CopyIsSample ==
  \A t \in Threads :
    Answered(t) /\ Op(t) = "gpu_metrics_info_get"
      /\ "read" \notin failed[t]
      => /\ Sample(t, Dev(t), result[t].from)
         /\ result[t].shown = Partition(t)

\* What a call delivers is one sample of its own device.
AnswersAreSamples == QueriesAreSamples /\ CopyIsSample

\* Whatever the version of the driver's table, every field of it can be had:
\* the public structure takes them all, and the rows a log prints are these
\* fields.
NothingHidden ==
  \A t \in Threads :
    Answered(t) =>
      /\ Op(t) = "gpu_metrics_info_get" => result[t].fields = Struct[Ver(t)]
      /\ Op(t) = "metrics_log_get" => result[t].fields = Struct[Ver(t)]
=============================================================================
