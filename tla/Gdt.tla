--------------------------------- MODULE Gdt ---------------------------------
(***************************************************************************)
(* The GDT set-up of src/gdt/gdt.c and kernel.c: kernel_main packs the      *)
(* table gdt_structured (base, limit, type per segment) into the 8-byte     *)
(* descriptors of gdt_real with gdt_structured_to_gdt, and gdt_load hands   *)
(* them to the CPU.  A descriptor is a function from byte index 0..7 to     *)
(* byte.                                                                    *)
(***************************************************************************)
EXTENDS Naturals, Bitwise

CONSTANTS
  TssBase,    \* (uint32_t)&tss: where the linker put the TSS
  GdtInputs,  \* GdtStructured values to try encodeGdtEntry on
  Panic       \* panic("encodeGdtEntry: Invalid argument\n") instead of a descriptor

\* A uint32_t as its two 16-bit halves: TLC's integers are 32-bit signed.
Word(hi, lo) == [hi |-> hi, lo |-> lo]
AllOnes == Word(65535, 65535)

\* sizeof(struct Tss): 25 packed uint32_t fields.
TssSize == Word(0, 25 * 4)

\* gdt_structured: the null segment, kernel code and data, user code and
\* data (flat 4 GiB), and the task state segment.
GdtStructured ==
  << [base |-> Word(0, 0), limit |-> Word(0, 0), type |-> 0],
     [base |-> Word(0, 0), limit |-> AllOnes, type |-> 154],
     [base |-> Word(0, 0), limit |-> AllOnes, type |-> 146],
     [base |-> Word(0, 0), limit |-> AllOnes, type |-> 250],
     [base |-> Word(0, 0), limit |-> AllOnes, type |-> 242],
     [base |-> TssBase, limit |-> TssSize, type |-> 137] >>

\* source.limit > 65536, source.limit & 0xFFF, source.limit >> 12 and the
\* limit as an int when it is at most 65536.
Above64K(x) == x.hi > 1 \/ (x.hi = 1 /\ x.lo > 0)
Low12(x) == x.lo & 4095
Shr12(x) == x.hi * 16 + shiftR(x.lo, 12)
Small(x) == x.hi * 65536 + x.lo

\* The bytes target[0..7] for a limit already scaled (at most 20 bits) and
\* the flags byte before the limit's high nibble is or-ed in.
Descriptor(base, limit, flags, type) ==
  LET b == << limit & 255, shiftR(limit, 8) & 255,
              base.lo & 255, shiftR(base.lo, 8), base.hi & 255,
              type,
              flags | (shiftR(limit, 16) & 15),
              shiftR(base.hi, 8) >>
  IN  [k \in 0 .. 7 |-> b[k + 1]]

\* Seeded fault: the granularity flags are stored after the limit's high
\* nibble was or-ed into target[6], and overwrite it.
EncodeGdtEntryFlagsLast(source) ==
  CASE Above64K(source.limit) /\ Low12(source.limit) # 4095 -> Panic
    [] Above64K(source.limit) ->
         [Descriptor(source.base, Shr12(source.limit), 0, source.type) EXCEPT ![6] = 192]
    [] OTHER -> Descriptor(source.base, Small(source.limit), 64, source.type)

\* encodeGdtEntry: a limit above 64 KiB must end in 0xFFF and is stored in
\* 4 KiB units with the granularity flag (0xC0); otherwise it is stored in
\* bytes with only the 32-bit flag (0x40).
EncodeGdtEntry(source) ==
  CASE Above64K(source.limit) /\ Low12(source.limit) # 4095 -> Panic
    [] Above64K(source.limit) -> Descriptor(source.base, Shr12(source.limit), 192, source.type)
    [] OTHER                  -> Descriptor(source.base, Small(source.limit), 64, source.type)

\* gdt_structured_to_gdt
GdtStructuredToGdt(structured) ==
  [i \in DOMAIN structured |-> EncodeGdtEntry(structured[i])]

(***************************************************************************)
(* Reference: how the CPU reads a segment descriptor (Intel SDM vol. 3,    *)
(* 3.4.5): a 20-bit limit in bytes 0, 1 and the low nibble of byte 6,      *)
(* counted in 4 KiB units (and filled with 0xFFF) when bit 7 of byte 6 (G)  *)
(* is set; the base in bytes 2, 3, 4 and 7; the access byte 5; bit 6 of    *)
(* byte 6 (D/B) set for a 32-bit segment.                                  *)
(***************************************************************************)
Limit20(d) == d[0] + 256 * d[1] + 65536 * (d[6] % 16)
Decoded(d) ==
  [base  |-> Word(d[4] + 256 * d[7], d[2] + 256 * d[3]),
   limit |-> IF (d[6] \div 128) % 2 = 1
               THEN Word(Limit20(d) \div 16, (Limit20(d) % 16) * 4096 + 4095)
               ELSE Word(Limit20(d) \div 65536, Limit20(d) % 65536),
   type  |-> d[5]]
Is32Bit(d) == (d[6] \div 64) % 2 = 1

\* A segment is encoded right when the CPU reads back exactly its base,
\* limit and type, and a code or data segment (S, bit 4 of the type, set)
\* as a 32-bit one.
EncodesExactly(s, d) ==
  d # Panic /\ Decoded(d) = s /\ ((s.type \div 16) % 2 = 1 => Is32Bit(d))

\* Every segment of gdt_structured is loaded as declared, and on every
\* input encodeGdtEntry either panics or encodes it exactly.
EncodeAgrees ==
  /\ \A i \in DOMAIN GdtStructured :
       EncodesExactly(GdtStructured[i], GdtStructuredToGdt(GdtStructured)[i])
  /\ \A s \in GdtInputs :
       EncodeGdtEntry(s) = Panic \/ EncodesExactly(s, EncodeGdtEntry(s))
====
