--------------------------- MODULE Bar0Discovery ---------------------------
(***************************************************************************)
(* Where the registers of an adapter are, and its PCI configuration space: *)
(* scripts of what is taken from the system, used and given back.  What is *)
(* read there is left out; each way a call can fail is kept.               *)
(***************************************************************************)
EXTENDS RegisterScript

MaxCapabilities == 2    \* bound: entries of the capability list

(***************************************************************************)
(* The device below the filter.                                            *)
(***************************************************************************)
AvbGetPdoFromFilter ==
  Take("file") \o OrElse(Take("pdo"), Give("file") \o Fail) \o Give("file")
WithPdo(s) == AvbGetPdoFromFilter \o OrElse(s, Give("pdo") \o Fail) \o Give("pdo")

(***************************************************************************)
(* Three ways to read the configuration space.  The first two need the bus *)
(* and the slot, the second the base its firmware table gives, the third   *)
(* asks the bus driver for an interface.                                   *)
(***************************************************************************)
AvbReadPciConfigDword == May

AvbGetEcamBaseForBus ==
  May \o Take("table") \o OrElse(May, Give("table") \o Fail) \o Give("table")
AvbReadPciConfigDwordEcamDirect == Take("window") \o Use("window") \o Give("window")

AvbReadPciConfigViaBusInterface_unreturned ==
  Use("pdo") \o Take("irp") \o Take("interface") \o Give("irp") \o May \o Give("interface")

AvbReadPciConfigViaBusInterface ==
  Use("pdo") \o Take("irp")
  \o OrElse(Take("interface"), Give("irp") \o Fail) \o Give("irp")
  \o OrElse(May, Give("interface") \o Fail) \o Give("interface")

(***************************************************************************)
(* The way that has read the ids (an Intel adapter's) reads the rest: BAR0 *)
(* of memory, and BAR1 if it has 64 bits.  Only an ECAM without an entry   *)
(* for the bus leads to the third way; a window that cannot be mapped is   *)
(* an error.                                                               *)
(***************************************************************************)
Bars(read) == May \o read \o May \o Either(May, read, Nothing)

AvbDiscoverIntelControllerResources ==
  WithPdo(
    May \o May
    \o Either(AvbReadPciConfigDword,
              Bars(AvbReadPciConfigDword),
              Either(AvbGetEcamBaseForBus,
                     AvbReadPciConfigDwordEcamDirect \o Bars(AvbReadPciConfigDwordEcamDirect),
                     AvbReadPciConfigViaBusInterface \o Bars(AvbReadPciConfigViaBusInterface))))

\* The memory resources the system has assigned.
AvbDiscoverIntelControllerResourcesAlternative ==
  AvbGetPdoFromFilter
  \o OrElse(May \o Take("list"), Give("pdo") \o Fail)
  \o OrElse(May, Give("pdo") \o Give("list") \o Fail)
  \o Give("pdo")
  \o OrElse(May, Give("list") \o Fail)
  \o Give("list")

(***************************************************************************)
(* Configuration space for the operations of a device.                     *)
(***************************************************************************)
AvbPciReadConfigDwordViaBusInterface == WithPdo(AvbReadPciConfigViaBusInterface)

AvbPciWriteConfigDwordViaBusInterface ==
  AvbGetPdoFromFilter
  \o OrElse(Take("irp"), Give("pdo") \o Fail)
  \o OrElse(Use("pdo") \o Take("interface"), Give("irp") \o Give("pdo") \o Fail) \o Give("irp")
  \o OrElse(May, Give("interface") \o Give("pdo") \o Fail) \o Give("interface") \o Give("pdo")

AvbPciReadConfigReal  == Do("private") \o AvbPciReadConfigDwordViaBusInterface
AvbPciWriteConfigReal == Do("private") \o AvbPciWriteConfigDwordViaBusInterface

\* An extended capability: absent, this one, or perhaps the next.
find_pcie_ext_cap ==
  LET scan[n \in 0..MaxCapabilities] ==
        IF n = 0 THEN Fail
        ELSE AvbPciReadConfigReal \o May \o Either(May, Nothing, scan[n - 1])
  IN scan[MaxCapabilities]
=============================================================================
