---------------------------- MODULE IntelKernel ----------------------------
(***************************************************************************)
(* The registry of device operations and the intel_* calls that dispatch   *)
(* to it.  No PCI id maps to the adapters of the igb family, whose tables  *)
(* are registered but never looked up; the I225 has an id and no table.    *)
(***************************************************************************)
EXTENDS NdisPlatform

LOCAL I210 == INSTANCE I210Device
LOCAL I217 == INSTANCE I217Device
LOCAL I219 == INSTANCE I219Device
LOCAL I226 == INSTANCE I226Device

AvbGetIntelDeviceType == {"i210", "i217", "i219", "i225", "i226"}
IsMdioFamily(type)    == type \in {"i217", "i219"}

device_registry == [i210 |-> I210!ops, i217 |-> I217!ops, i219 |-> I219!ops, i226 |-> I226!ops]

intel_get_device_ops(type) ==
  IF type \in DOMAIN device_registry THEN device_registry[type] ELSE NoOps

\* What the scripts below are told of their adapter.
intel_device(type) == [type |-> type, ops |-> intel_get_device_ops(type)]

\* The operation, or the error of a device that has none.
Op(device, name) == IF Has(device.ops[name]) THEN device.ops[name] ELSE Fail
OpOn(device, name, on) == IF Has(device.ops[name]) THEN device.ops[name][on] ELSE Fail

get_device_context == Do("private")

\* Without a table there is no platform initialisation either: it fails.
intel_init(device)     == get_device_context \o Op(device, "init")
intel_detach(device)   == Attempt(get_device_context \o Op(device, "cleanup"))
intel_get_device_info(device) == get_device_context \o Op(device, "get_info")
intel_read_reg(r)         == Read(r)
intel_write_reg(r, flags) == Write(r, flags)

\* The system's time, if nothing else answers: never an error.
intel_gettime(device) ==
  OrElse(get_device_context \o Op(device, "get_systime"), Attempt(AvbReadTimestampReal(device)))

intel_set_systime(device) == get_device_context \o Op(device, "set_systime")
intel_setup_time_aware_shaper(device) == get_device_context \o Op(device, "setup_tas")
intel_setup_frame_preemption(device, on) ==
  get_device_context \o OpOn(device, "setup_frame_preemption", on)
intel_setup_ptm(device)   == get_device_context \o Op(device, "setup_ptm")
intel_mdio_read(device) ==
  OrElse(get_device_context \o Op(device, "mdio_read"), AvbMdioReadReal(device))
intel_mdio_write(device) ==
  OrElse(get_device_context \o Op(device, "mdio_write"), AvbMdioWriteReal(device))
=============================================================================
