---------------------------- MODULE XhciFirmware ----------------------------
(* AppleBootTimeEmbeddedFirmwareHelperDxe: a driver binding whose Supported   *)
(* function, called before XhciDxe's whenever BDS connects a PCI device,      *)
(* uploads the firmware of the ASMedia xHCI controller and then answers       *)
(* EFI_UNSUPPORTED, so that XhciDxe takes the controller.                     *)
EXTENDS PciePorts

CONSTANTS Chunk,       \* ASMEDIA_FIRMWARE_UPLOAD_CHUNK_SIZE, a power of two
          AddressSpan, \* how many values the 16-bit SRAM address register has
          MaxConnects  \* how often BDS connects all devices

ASSUME ChunkAssumption == {Chunk, AddressSpan} \subseteq Nat \ {0} /\ MaxConnects \in Nat

VARIABLES binding,     \* is the driver binding installed
          connects,    \* rounds of ConnectAll begun
          pending,     \* devices this round has still to offer
          handle,      \* the device Supported was called for
          fwStep,      \* where Supported is
          messages,    \* mailbox messages still to exchange
          opened,      \* devices the helper holds BY_DRIVER
          xhci,        \* devices XhciDxe has started
          asm,         \* the controller: its CPU and its access switches
          sram,        \* its code memory: the pair of words at each address
          index, addr, \* Index and Addr of the upload loop
          accepted,    \* has the controller taken the pair
          uploaded     \* UsbFirmwareLoadSuccessful

fwVars == <<binding, connects, pending, handle, fwStep, messages, opened, xhci,
            asm, sram, index, addr, accepted, uploaded>>

None == "none"
Devices == DOMAIN machine.pci       \* "asmedia" and other PCI devices
\* The PCI bus finds the devices behind the links that are up by then.
Enumerated == {d \in Devices : lane[machine.pci[d]].link}
FirmwareChunks == machine.words     \* the blob, in 16-bit words
Blank == <<-1, -1>>

FirmwareInit ==
  /\ binding = TRUE /\ connects = 0 /\ pending = {} /\ handle = None
  /\ fwStep = "idle" /\ messages = 0 /\ opened = {} /\ xhci = {}
  /\ asm = [cpu |-> "rom", ramWrite |-> FALSE, access |-> FALSE]
  /\ sram = [a \in 0 .. 2 * FirmwareChunks |-> Blank]
  /\ index = 0 /\ addr = 0 /\ accepted = FALSE /\ uploaded = FALSE

Upload == <<sram, index, addr, accepted>>
Connection == <<binding, connects, pending, handle, opened, xhci>>

\* BDS connects everything, more than once when boot options fail.
ConnectAll ==
  /\ On("bds") /\ fwStep = "idle" /\ pending = {} /\ connects < MaxConnects
  /\ connects' = connects + 1 /\ pending' = Enumerated
  /\ Stay
  /\ UNCHANGED <<binding, handle, fwStep, messages, opened, xhci, asm, Upload, uploaded>>

\* OpenProtocol BY_DRIVER, refused while another driver manages the device.
\* Without the binding XhciDxe is asked straight away.
OfferDevice ==
  /\ On("bds") /\ fwStep = "idle"
  /\ \E h \in pending :
       /\ pending' = pending \ {h} /\ handle' = h
       /\ IF binding /\ h \notin opened \cup xhci
          THEN fwStep' = "identify" /\ opened' = opened \cup {h}
          ELSE fwStep' = "takeover" /\ UNCHANGED opened
  /\ uploaded' = FALSE
  /\ Stay /\ UNCHANGED <<binding, connects, messages, xhci, asm, Upload>>

InSupported(step) == On("bds") /\ fwStep = step
Goes(step) == fwStep' = step /\ Stay

\* Vendor and device id; either read may fail.
FirmwareIdentify ==
  /\ InSupported("identify")
  /\ IF handle = "asmedia"
     THEN \E ok \in BOOLEAN : /\ messages' = IF ok THEN 4 ELSE 0
                              /\ Goes(IF ok THEN "version" ELSE "close")
     ELSE Goes("close") /\ UNCHANGED messages
  /\ UNCHANGED <<Connection, asm, Upload, uploaded>>

\* A mailbox that does not answer in time, or answers another command, meets an
\* ASSERT; a release build compares a version nobody stored.
Asking == On("bds") /\ fwStep \in {"version", "verify"}
MailboxFails == IF machine.debug THEN AssertFails /\ UNCHANGED messages
                                 ELSE messages' = -1 /\ Stay

\* Two messages ask for the version, two answer.
SendMessage ==
  /\ Asking /\ messages \in {3, 4}
  /\ \/ messages' = messages - 1 /\ Stay
     \/ MailboxFails
  /\ UNCHANGED <<Connection, fwStep, asm, Upload, uploaded>>

ReceiveMessage ==
  /\ Asking /\ messages \in {1, 2}
  /\ \/ messages' = messages - 1 /\ Stay
     \/ MailboxFails
  /\ UNCHANGED <<Connection, fwStep, asm, Upload, uploaded>>

\* AppleAsmediaCheckFirmwareIsLoaded: the version is not the ROM's.
SaysLoaded == IF messages = 0 THEN {asm.cpu = "ram"} ELSE BOOLEAN

CheckFirmwareIsLoaded ==
  /\ InSupported("version") /\ messages =< 0
  /\ \E loaded \in SaysLoaded :
       /\ uploaded' = loaded
       /\ Goes(IF loaded THEN "close" ELSE "reset")
  /\ UNCHANGED <<Connection, messages, asm, Upload>>

\* The answer of the second check is not used.
VerifyFirmware == /\ InSupported("verify") /\ messages =< 0
                  /\ Goes("close")
                  /\ UNCHANGED <<Connection, messages, asm, Upload, uploaded>>

\* What follows a call that may fail: an ASSERT, or a release build goes on.
OkGoes(ok, step) == IF ok \/ ~machine.debug THEN Goes(step) ELSE AssertFails /\ UNCHANGED fwStep

\* AppleAsmediaWaitReset: when the reset bit stays set the SRAM switch is set
\* and cleared once, and the bit polled again.  It fails before the first poll,
\* at either write of the switch, or after the second poll; what the CPU does
\* by then is the controller's affair.
WaitReset(mode, step) ==
  \E ok \in BOOLEAN, cpu \in {mode, "halted", asm.cpu}, access \in BOOLEAN :
    /\ ok => cpu = mode /\ access \in {asm.access, FALSE}
    /\ asm' = [asm EXCEPT !.cpu = cpu, !.access = access]
    /\ OkGoes(ok, step)

\* Half speed and reset, which starts the ROM again.
LoadFirmwareReset ==
  /\ InSupported("reset")
  /\ WaitReset("rom", "halt")
  /\ UNCHANGED <<Connection, messages, Upload, uploaded>>

\* Several registers in a row (AppleAsmediaWriteRegister, which reads the code
\* memory switch back, and the SRAM switch): each write meets an ASSERT when it
\* fails, and may then have taken effect or not.
WriteRegisters(new, step) ==
  \E ok \in BOOLEAN, cpu \in {asm.cpu, new.cpu}, ramWrite \in BOOLEAN, access \in BOOLEAN :
    /\ asm' = [cpu |-> cpu, ramWrite |-> ramWrite, access |-> access]
    /\ ok => asm' = new
    /\ OkGoes(ok, step)

\* Halt, code memory writable, SRAM access.
LoadFirmwareHalt ==
  /\ InSupported("halt")
  /\ WriteRegisters([cpu |-> "halted", ramWrite |-> TRUE, access |-> TRUE], "write")
  /\ index' = 0 /\ addr' = 0 /\ accepted' = FALSE
  /\ UNCHANGED <<Connection, messages, sram, uploaded>>

\* i | Chunk and i & Chunk, for a power of two.
HasBit(i) == (i \div Chunk) % 2 = 1
WithBit(i) == IF HasBit(i) THEN i ELSE i + Chunk

\* The pair of words a turn of the loop writes: the upper one, a chunk further
\* in the blob, is zero past the end of the blob.
Pair(i) == <<i, IF WithBit(i) < FirmwareChunks THEN WithBit(i) ELSE -1>>

\* The address register takes the low 16 bits of Addr.  A pair whose address or
\* data cannot be written is lost.
LoadFirmwareWrite ==
  /\ InSupported("write") /\ index < FirmwareChunks
  /\ \E ok \in BOOLEAN :
       /\ sram' = IF ok /\ asm.access /\ asm.ramWrite
                  THEN [sram EXCEPT ![addr % AddressSpan] = Pair(index)] ELSE sram
       /\ OkGoes(ok, "poll")
  /\ accepted' = FALSE
  /\ UNCHANGED <<Connection, messages, asm, index, addr, uploaded>>

\* The controller advances its address register.
AsmediaAccepts ==
  /\ fwStep = "poll" /\ ~halted /\ ~accepted
  /\ accepted' = TRUE
  /\ Stay /\ UNCHANGED <<Connection, fwStep, messages, asm, sram, index, addr, uploaded>>

\* Mutant: the second chunk is written again.
NextIndexAll(i) == i + 1

NextIndex(i) == IF HasBit(i + 1) THEN i + 1 + Chunk ELSE i + 1

\* The register is read back and compared with all of Addr; what a failed read
\* leaves to compare is anything.
LoadFirmwarePoll ==
  /\ InSupported("poll")
  /\ \/ /\ UNCHANGED <<messages, index, addr, fwStep>> /\ AssertFails
     \/ \E moved \in IF machine.debug THEN {accepted \/ addr >= AddressSpan} ELSE BOOLEAN :
          IF moved THEN /\ index' = NextIndex(index) /\ addr' = addr + 2
                        /\ Goes("write") /\ UNCHANGED messages
                   ELSE /\ messages' = 4 /\ Goes("verify") /\ UNCHANGED <<index, addr>>
  /\ UNCHANGED <<Connection, asm, sram, accepted, uploaded>>

LoadFirmwareRun ==
  /\ InSupported("write") /\ index >= FirmwareChunks
  /\ WriteRegisters([asm EXCEPT !.access = FALSE, !.ramWrite = FALSE], "restart")
  /\ UNCHANGED <<Connection, messages, Upload, uploaded>>

LoadFirmwareRestart ==
  /\ InSupported("restart")
  /\ WaitReset("ram", "verify")
  /\ uploaded' = ~halted' /\ messages' = 4
  /\ UNCHANGED <<Connection, Upload>>

\* Mutant: the binding goes after any attempt.
CloseProtocolAndRetire ==
  /\ InSupported("close")
  /\ opened' = opened \ {handle}
  /\ binding' = FALSE
  /\ Goes("takeover")
  /\ UNCHANGED <<connects, pending, handle, xhci, messages, asm, Upload, uploaded>>

\* CloseProtocolAndExit: the binding goes once the firmware is there.
CloseProtocolAndExit ==
  /\ InSupported("close")
  /\ opened' = opened \ {handle}
  /\ binding' = (binding /\ ~uploaded)
  /\ Goes("takeover")
  /\ UNCHANGED <<connects, pending, handle, xhci, messages, asm, Upload, uploaded>>

\* EFI_UNSUPPORTED: the next binding is asked; XhciDxe takes xHCI controllers
\* it can open.
XhciTakesOver ==
  /\ InSupported("takeover")
  /\ xhci' = IF handle \in machine.xhci /\ handle \notin opened
             THEN xhci \cup {handle} ELSE xhci
  /\ handle' = None /\ Goes("idle")
  /\ UNCHANGED <<binding, connects, pending, opened, messages, asm, Upload, uploaded>>

FirmwareStep ==
  \/ ConnectAll \/ OfferDevice \/ FirmwareIdentify \/ SendMessage \/ ReceiveMessage
  \/ CheckFirmwareIsLoaded \/ VerifyFirmware \/ LoadFirmwareReset
  \/ LoadFirmwareHalt \/ LoadFirmwareWrite \/ LoadFirmwarePoll
  \/ LoadFirmwareRun \/ LoadFirmwareRestart \/ CloseProtocolAndExit \/ XhciTakesOver
=============================================================================
