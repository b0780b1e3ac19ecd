------------------------------ MODULE UsbFifo ------------------------------
(***************************************************************************)
(* The FIFO configuration of carlfw/usb/fifo.c, and the tables it takes    *)
(* its numbers from (carlfw/include/usb_fifo.h): which registers of the    *)
(* USB core a switch of the configuration writes, and with what.  A        *)
(* register is its offset from AR9170_USB_REG_BASE and holds a byte.       *)
(***************************************************************************)
EXTENDS Integers, FiniteSetsExt, TLC

Byte(n) == n % 256

(* The byte with the bits of both numbers.                                 *)
Or(a, b) ==
    LET Bit(k) == IF (a \div 2^k) % 2 = 1 \/ (b \div 2^k) % 2 = 1 THEN 2^k ELSE 0
    IN  MapThenSumSet(Bit, 0 .. 7)

\* Registers, include/shared/hw.h.
EpMap == 48            \* 0x030
InMaxHigh == 63        \* 0x03f
InMaxLow == 62         \* 0x03e
OutMaxHigh == 95       \* 0x05f
OutMaxLow == 94        \* 0x05e
FifoMap == 128         \* 0x080
FifoConfig == 144      \* 0x090
DmaCtl == 264          \* 0x108

In == 0
Out == 1
Endpoints == 1 .. 4
Dir(e) == IF e \in {1, 4} THEN Out ELSE In
BlkSize(e) == IF e \in {1, 2} THEN 512 ELSE 64
BlkNo(e) == IF e = 1 THEN 2 ELSE 1
MaxPacket(hs, e) == IF hs /\ e \in {1, 2} THEN 512 ELSE 64
TfType(hs, e) == IF e \in {1, 2} \/ (e = 4 /\ ~hs) THEN 2 ELSE 3

\* EPn_FIFO_NO: a byte, but where the cast is missing.
FifoNo(hs, e) ==
    LET n == BlkNo(e) * BlkSize(e)
    IN  IF hs /\ e # 2 THEN n ELSE Byte(n)

\* EPn_FIFO_START: 14 for endpoint 3, else what the one before leaves free.
FifoStart(hs, e) ==
    CASE e = 1 -> 0
      [] e = 2 -> Byte(FifoNo(hs, 1))
      [] e = 3 -> 14
      [] e = 4 -> Byte(14 + FifoNo(hs, 3))

\* EPn_FIFO_CONFIG; bit 7 marks the first FIFO of the endpoint.
Config(hs, e) ==
    LET low == (BlkNo(e) - 1) * 4 + TfType(hs, e)
        bits == Byte((BlkSize(e) - 1) * 16) + low
    IN  [first |-> Or(128, bits), next |-> bits % 128]

\* EPn_MAP and EPn_FIFO_MAP.
MapByte(hs, e) ==
    Or(Or(FifoStart(hs, e), FifoStart(hs, e) * 16), IF Dir(e) = In THEN 240 ELSE 15)
FifoMapByte(e) == (1 - Dir(e)) * 16 + e

\* usb_fifo_config takes the number of the FIFO as a byte.
FifoReg(i) == FifoConfig + Byte(i) - 1

(***************************************************************************)
(* What one endpoint writes: a function from the offsets it writes to the  *)
(* bytes they hold after.  usb_ep_packet_size_hi/lo add the direction      *)
(* before they shift, and usb_ep_in_highbandset overwrites the high byte.  *)
(* The later write comes first: @@ prefers its left side.                  *)
(***************************************************************************)
Loop(hs, e) == (FifoStart(hs, e) + 1) .. (FifoStart(hs, e) + FifoNo(hs, e) - 1)

MaxHigh(e) == InMaxHigh + (Dir(e) * 32 + e) * 2
MaxLow(e) == InMaxLow + (Dir(e) * 32 + e) * 2

HighBand(hs, e) ==
    IF Dir(e) = In THEN (MaxPacket(hs, e) \div 2048 + 1) * 32
                   ELSE (MaxPacket(hs, e) \div 256) % 16

EpWrites(hs, e) ==
    LET loop == {FifoReg(i) : i \in Loop(hs, e)}
        first == FifoReg(FifoStart(hs, e))
    IN  (MaxLow(e) :> Byte(MaxPacket(hs, e))) @@ (MaxHigh(e) :> HighBand(hs, e))
          @@ [o \in loop |-> Config(hs, e).next] @@ (first :> Config(hs, e).first)
          @@ (FifoMap + FifoStart(hs, e) - 1 :> FifoMapByte(e))
          @@ (EpMap + e - 1 :> MapByte(hs, e))

(***************************************************************************)
(* usb_init_highspeed_fifo_cfg and usb_init_fullspeed_fifo_cfg: endpoints  *)
(* 1 to 4 in turn; a register holds what was written last.                 *)
(***************************************************************************)
FifoCfg(hs, regs) ==
    [o \in DOMAIN regs |->
        LET writers == {e \in Endpoints : o \in DOMAIN EpWrites(hs, e)}
        IN  IF writers = {} THEN regs[o] ELSE EpWrites(hs, Max(writers))[o]]

\* The size the core takes for an endpoint: 11 bits in two registers.
CoreMaxPacket(regs, e) ==
    IF Dir(e) = In
      THEN (regs[InMaxHigh + 2 * e] % 8) * 256 + regs[InMaxLow + 2 * e]
      ELSE (regs[OutMaxHigh + 2 * e] % 8) * 256 + regs[OutMaxLow + 2 * e]
=============================================================================
