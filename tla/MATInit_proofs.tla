--------------------------- MODULE MATInit_proofs ---------------------------
(***************************************************************************)
(* What holds at start-up for any memory map, any sizes of the kernel's    *)
(* parts and any sizes of pages and sectors: the list of memory ranges is  *)
(* kept sorted and complete (ListInv), it decides which pages may be       *)
(* handed out, all of the BIOS's descriptors reach it (HandInv), and the   *)
(* kernel's image is loaded as it is in the file (BootInv).                *)
(***************************************************************************)
EXTENDS MATInit, TLAPS

-----------------------------------------------------------------------------
(* Loading the kernel.                                                     *)

\* A multiple of r and a number below r: the remainder is that number.
LEMMA MultipleRemainder ==
  ASSUME NEW k \in Nat, NEW r \in Nat, NEW b \in Nat, b < r
  PROVE  (k * r + b) % r = b
  <1> DEFINE a == k * r + b
             d == a \div r
             m == a % r
  <1>1. a \in Nat /\ d \in Nat /\ m \in 0 .. r - 1 /\ a = r * d + m
    OBVIOUS
  <1> HIDE DEF d, m
  <1>2. k * r + b = d * r + m
    BY <1>1
  <1>3. CASE k = d
    BY <1>1, <1>2, <1>3 DEF m
  <1>4. CASE k < d
    <2>1. (k + 1) * r <= d * r /\ (k + 1) * r = k * r + r
      BY <1>1, <1>4
    <2> QED BY <1>1, <1>2, <2>1
  <1>5. CASE k > d
    <2>1. (d + 1) * r <= k * r /\ (d + 1) * r = d * r + r
      BY <1>1, <1>5
    <2> QED BY <1>1, <1>2, <2>1
  <1> QED BY <1>1, <1>3, <1>4, <1>5

\* Quotient and remainder.
LEMMA DivMod ==
  ASSUME NEW a \in Nat, NEW n \in Nat \ {0}
  PROVE  /\ a \div n \in Nat /\ (a \div n) * n \in Nat
         /\ a % n \in Nat /\ a % n <= n - 1
         /\ a = (a \div n) * n + (a % n)
  <1> DEFINE d == a \div n
             m == a % n
  <1>1. d \in Nat /\ m \in 0 .. n - 1 /\ a = n * d + m
    OBVIOUS
  <1> HIDE DEF d, m
  <1>2. n * d = d * n /\ d * n \in Nat
    BY <1>1
  <1>3. d \in Nat /\ d * n \in Nat /\ m \in Nat /\ m <= n - 1 /\ a = d * n + m
    BY <1>1, <1>2
  <1> QED BY Zenon, <1>3 DEF d, m

\* A multiple of n does not change the remainder.
LEMMA RemainderOfSum ==
  ASSUME NEW m \in Nat, NEW n \in Nat \ {0}, NEW r \in Nat
  PROVE  (m * n + r) % n = r % n
  <1> DEFINE d == r \div n
             b == r % n
  <1>1. d \in Nat /\ b \in Nat /\ b < n /\ r = d * n + b
    OBVIOUS
  <1> HIDE DEF d, b
  <1>2. m * n + r = (m + d) * n + b
    BY <1>1
  <1>3. ((m + d) * n + b) % n = b
    BY <1>1, MultipleRemainder
  <1> QED BY <1>2, <1>3 DEF b

\* Rounding down takes the remainder away; rounding up leaves a multiple.
LEMMA Rounding ==
  ASSUME NEW a \in Nat, NEW n \in Nat \ {0}
  PROVE  /\ Down(a, n) \in Nat /\ Down(a, n) + (a % n) = a
         /\ Up(a, n) \in Nat /\ a <= Up(a, n)
         /\ \E u \in Nat : Up(a, n) = u * n
  <1>1. Down(a, n) \in Nat /\ Down(a, n) + (a % n) = a
    <2> DEFINE y == (a \div n) * n
               z == a % n
    <2>1. y \in Nat /\ z \in Nat /\ a = y + z
      BY DivMod
    <2> HIDE DEF y, z
    <2>2. y + z = a
      BY <2>1
    <2> QED BY Zenon, <2>1, <2>2 DEF y, z, Down
  <1> DEFINE x == a + n - 1
             u == x \div n
  <1>2. /\ x \in Nat /\ u \in Nat /\ x = u * n + (x % n)
        /\ x % n \in Nat /\ x % n <= n - 1
    <2>1. x \in Nat
      OBVIOUS
    <2> HIDE DEF x
    <2> QED BY Zenon, <2>1, DivMod
  <1>3. Up(a, n) = u * n /\ u * n \in Nat
    BY <1>2 DEF Up
  <1>4. a <= u * n
    <2> HIDE DEF u
    <2> DEFINE y == u * n
               z == x % n
    <2>1. y \in Nat /\ x = y + z /\ z \in Nat /\ z <= n - 1
      <3> HIDE DEF x
      <3> QED BY Zenon, <1>2, <1>3
    <2> HIDE DEF y, z
    <2> QED BY <2>1 DEF y
  <1> QED BY <1>1, <1>2, <1>3, <1>4

\* What the loader relies on in the way kernels are linked.
Layout(k, text, data, va) ==
  /\ text \in Nat /\ data \in Nat /\ va \in Nat
  /\ DOMAIN k.segs = 1 .. 3 /\ Len(k.segs) = 3
  /\ k.segs[1].va = KERN_BASE /\ k.segs[1].offset = LINKPAGE
  /\ k.segs[1].filesz = text /\ k.segs[1].memsz = text
  /\ k.segs[2].va = va /\ k.segs[2].offset = LINKPAGE + text
  /\ k.segs[2].filesz = data
  /\ k.segs[2].memsz \in Nat /\ k.segs[2].memsz >= data
  /\ k.segs[3].va = 0 /\ k.segs[3].offset = 0
  /\ k.segs[3].filesz = 0 /\ k.segs[3].memsz = 0
  /\ k.edata = va + data /\ k.bsp_kstack \in Nat /\ k.end \in Nat
  /\ k.edata <= k.bsp_kstack /\ k.bsp_kstack + LINKPAGE <= k.end /\ k.end <= LOWMEM
  /\ KERN_BASE + text <= Down(va, SECTOR_SIZE)
  /\ KERN_BASE % SECTOR_SIZE = LINKPAGE % SECTOR_SIZE
  /\ va % SECTOR_SIZE = (LINKPAGE + text) % SECTOR_SIZE

LEMMA KernelsAreLaidOut ==
  ASSUME NEW k \in Kernels
  PROVE  \E text, data, va : Layout(k, text, data, va)
  <1>1. PICK text \in Nat, data \in Nat, bss \in Nat, magic \in BOOLEAN :
               k = Linked(text, data, bss, magic)
    <2>1. TextSizes \subseteq Nat /\ DataSizes \subseteq Nat /\ BssSizes \subseteq Nat
      BY BootAssumption
    <2>2. CASE k = Linked(0, 0, 0, FALSE)
      BY Zenon, <2>2
    <2>3. CASE \E text \in TextSizes, data \in DataSizes, bss \in BssSizes :
                 k = Linked(text, data, bss, TRUE)
      BY Zenon, <2>1, <2>3
    <2>4. \/ k = Linked(0, 0, 0, FALSE)
          \/ \E text \in TextSizes, data \in DataSizes, bss \in BssSizes :
               k = Linked(text, data, bss, TRUE)
      BY Zenon DEF Kernels
    <2> QED BY Zenon, <2>2, <2>3, <2>4
  <1> DEFINE L  == LINKPAGE
             S  == SECTOR_SIZE
             up == Up(KERN_BASE + text, L)
             va == up + (text % L)
             ks == Up(va + data + bss, L)
  <1>2. /\ L \in Nat \ {0} /\ S \in Nat \ {0} /\ L % S = 0
        /\ KERN_BASE \in Nat /\ KERN_BASE % L = 0
    BY BootAssumption
  <1> HIDE DEF L, S
  <1>3. /\ up \in Nat /\ KERN_BASE + text <= up /\ text % L \in Nat
        /\ \E u \in Nat : up = u * L
    <2> DEFINE x == KERN_BASE + text
    <2>1. x \in Nat
      BY <1>2
    <2>2. up = Up(x, L)
      OBVIOUS
    <2> HIDE DEF x, up
    <2>3. up \in Nat /\ x <= up /\ \E u \in Nat : up = u * L
      BY Zenon, <1>2, <2>1, <2>2, Rounding
    <2>4. text % L \in Nat
      BY <1>2, DivMod
    <2> QED BY <2>3, <2>4 DEF x
  <1>4. PICK u \in Nat : up = u * L
    BY <1>3
  <1>5. va \in Nat /\ ks \in Nat /\ va + data + bss <= ks
    <2> HIDE DEF up
    <2>1. va \in Nat
      BY <1>3
    <2> DEFINE x == va + data + bss
    <2>2. x \in Nat
      BY <2>1
    <2>3. ks = Up(x, L)
      OBVIOUS
    <2> HIDE DEF x, va, ks
    <2>4. ks \in Nat /\ x <= ks
      BY <1>2, <2>2, <2>3, Rounding
    <2> QED BY <2>1, <2>4 DEF x
  <1>6. PICK c \in Nat : L = c * S
    <2>1. L = (L \div S) * S + (L % S) /\ L \div S \in Nat
      BY <1>2, DivMod
    <2> QED BY <1>2, <2>1
  <1>7. PICK q \in Nat : text = q * L + (text % L)
    <2>1. text = (text \div L) * L + (text % L) /\ text \div L \in Nat
      BY <1>2, DivMod
    <2> QED BY <2>1
  <1>8. PICK b \in Nat : KERN_BASE = b * L
    <2>1. KERN_BASE = (KERN_BASE \div L) * L + (KERN_BASE % L) /\ KERN_BASE \div L \in Nat
      BY <1>2, DivMod
    <2> QED BY <1>2, <2>1
  <1> DEFINE r == text % L
  <1> HIDE DEF up, va, ks, r
  <1>9. KERN_BASE % S = 0
    <2>1. KERN_BASE = (b * c) * S + 0 /\ b * c \in Nat
      BY <1>2, <1>6, <1>8
    <2> QED BY <1>2, <2>1, MultipleRemainder
  <1>10. r \in Nat /\ va = up + r /\ text = q * L + r
    <2>1. r \in Nat
      BY <1>3 DEF r
    <2>2. va = up + r
      BY DEF va, r
    <2>3. text = q * L + r
      BY <1>7 DEF r
    <2> QED BY <2>1, <2>2, <2>3
  <1>11. va % S = r % S
    <2>1. va = (u * c) * S + r /\ u * c \in Nat
      BY <1>2, <1>4, <1>6, <1>10
    <2> DEFINE m == u * c
    <2> HIDE DEF m
    <2>2. va = m * S + r /\ m \in Nat
      BY <2>1 DEF m
    <2>3. (m * S + r) % S = r % S
      BY <1>2, <1>10, <2>2, RemainderOfSum
    <2> QED BY Zenon, <2>2, <2>3
  <1>12. (L + text) % S = r % S
    <2>1. L + text = (c + q * c) * S + r /\ c + q * c \in Nat
      <3>1. q * L = (q * c) * S /\ q * c \in Nat
        BY <1>2, <1>6
      <3>2. (c + q * c) * S = c * S + (q * c) * S
        BY <1>2, <3>1
      <3> QED BY <1>2, <1>6, <1>10, <3>1, <3>2
    <2> DEFINE m == c + q * c
    <2> HIDE DEF m
    <2>2. L + text = m * S + r /\ m \in Nat
      BY <2>1 DEF m
    <2>3. (m * S + r) % S = r % S
      BY <1>2, <1>10, <2>2, RemainderOfSum
    <2> QED BY Zenon, <2>2, <2>3
  <1>13. up <= Down(va, S)
    <2> DEFINE d == r \div S
               m == r % S
    <2>1. d \in Nat /\ m \in Nat /\ r = d * S + m /\ d * S \in Nat
      BY Zenon, <1>2, <1>10, DivMod
    <2>2. Down(va, S) \in Nat /\ Down(va, S) + (va % S) = va
      BY Zenon, <1>2, <1>5, Rounding
    <2> HIDE DEF d, m
    <2>3. va % S = m
      BY <1>11 DEF m
    <2> DEFINE y == d * S
    <2>4. y \in Nat /\ r = y + m /\ m \in Nat
      BY <2>1
    <2> HIDE DEF y
    <2> QED BY <1>3, <1>10, <2>2, <2>3, <2>4
  <1>14. k = [segs |-> <<[va |-> KERN_BASE, offset |-> L, filesz |-> text, memsz |-> text],
                         [va |-> va, offset |-> L + text, filesz |-> data,
                          memsz |-> ks + L + bss - va],
                         [va |-> 0, offset |-> 0, filesz |-> 0, memsz |-> 0]>>,
              edata |-> va + data, bsp_kstack |-> ks,
              end |-> ks + L + bss, magic |-> magic]
    BY <1>1 DEF Linked, va, up, ks, L
  <1>15. k.end <= LOWMEM
    BY KernelFits
  <1>16. KERN_BASE + text <= Down(va, S)
    <2>1. Down(va, S) \in Nat
      BY <1>2, <1>5, Rounding
    <2> QED BY <1>2, <1>3, <1>13, <2>1
  <1>17. ks + L + bss - va \in Nat /\ ks + L + bss - va >= data
    BY <1>2, <1>5
  <1>18. Layout(k, text, data, va)
    BY <1>2, <1>5, <1>9, <1>11, <1>12, <1>14, <1>15, <1>16, <1>17 DEF Layout, L, S
  <1> QED BY <1>18

\* The section is in memory byte by byte where it belongs, and nothing below its
\* first sector has changed.
SectionIn(new, address, count, offset, lba) ==
  /\ new \in [0 .. LOWMEM - 1 -> Int]
  /\ \A a \in 0 .. LOWMEM - 1 :
       /\ address <= a /\ a < address + count =>
            new[a] = DiskByte(lba, offset + (a - address))
       /\ a < Down(address, SECTOR_SIZE) => new[a] = kmem[a]

\* So it is when its address and its offset agree modulo the sector size.
LEMMA SectionRead ==
  ASSUME NEW address \in Nat, NEW count \in Nat, NEW offset \in Nat, NEW lba \in Nat,
         address < LOWMEM, address % SECTOR_SIZE = offset % SECTOR_SIZE,
         kmem \in [0 .. LOWMEM - 1 -> Int],
         NEW new, new = readsection(address, count, offset, lba)
  PROVE  SectionIn(new, address, count, offset, lba)
  <1> DEFINE S      == SECTOR_SIZE
             va     == Down(address, S)
             len    == Up((address + count) - va, S)
             sector == offset \div S + lba
  <1>1. S \in Nat \ {0} /\ LOWMEM \in Nat
    BY BootAssumption
  <1>2. address % LOWMEM = address
    <2>1. (0 * LOWMEM + address) % LOWMEM = address
      BY Zenon, <1>1, MultipleRemainder
    <2>2. 0 * LOWMEM + address = address
      BY <1>1
    <2> QED BY Zenon, <2>1, <2>2
  <1>3. new = [a \in 0 .. LOWMEM - 1 |->
                IF a \in va .. va + len - 1 THEN DiskByte(sector, a - va) ELSE kmem[a]]
    BY <1>2 DEF readsection
  <1> HIDE DEF S
  <1> DEFINE r == address % S
             q == (offset \div S) * S
  <1>4. va \in Nat /\ va + r = address
    BY <1>1, Rounding
  <1>5. offset \div S \in Nat /\ q \in Nat /\ r \in Nat /\ offset = q + r
    <2>1. r = offset % S
      BY DEF S
    <2>2. offset \div S \in Nat /\ q \in Nat /\ offset % S \in Nat
          /\ offset = q + (offset % S)
      BY Zenon, <1>1, DivMod
    <2> QED BY <2>1, <2>2
  <1> HIDE DEF va, r
  <1>6. len \in Nat /\ (address + count) - va <= len
    <2> DEFINE x == (address + count) - va
    <2>1. x \in Nat
      BY <1>4, <1>5
    <2> HIDE DEF x
    <2>2. Up(x, S) \in Nat /\ x <= Up(x, S)
      BY <1>1, <2>1, Rounding
    <2> QED BY <2>2 DEF x
  <1> HIDE DEF len
  <1>7. ASSUME NEW a \in 0 .. LOWMEM - 1
        PROVE  DiskByte(sector, a - va) \in Int
    BY <1>1, <1>4, <1>5 DEF DiskByte, S
  <1>8. new \in [0 .. LOWMEM - 1 -> Int]
    <2> HIDE DEF sector
    <2> QED BY <1>3, <1>7
  <1>9. ASSUME NEW a \in 0 .. LOWMEM - 1, address <= a, a < address + count
        PROVE  new[a] = DiskByte(lba, offset + (a - address))
    <2>1. a \in va .. va + len - 1
      BY <1>1, <1>4, <1>5, <1>6, <1>9
    <2>2. new[a] = DiskByte(sector, a - va)
      BY <1>3, <2>1
    <2>3. sector * S = q + lba * S
      BY <1>1, <1>5
    <2> DEFINE y == lba * S
               z == sector * S
    <2>4. y \in Nat /\ z = q + y
      BY <1>1, <2>3
    <2> HIDE DEF y, z, q, sector
    <2>5. 1 + z + (a - va) = 1 + y + (offset + (a - address))
      BY <1>1, <1>4, <1>5, <2>4
    <2> QED BY Zenon, <2>2, <2>5 DEF DiskByte, y, z, S
  <1>10. ASSUME NEW a \in 0 .. LOWMEM - 1, a < va
         PROVE  new[a] = kmem[a]
    <2>1. a \notin va .. va + len - 1
      BY <1>1, <1>4, <1>10
    <2> QED BY <1>3, <2>1
  <1> QED BY <1>8, <1>9, <1>10 DEF SectionIn, va, S

\* A section without content is not read.
LEMMA EmptySection ==
  ASSUME NEW lba \in Nat, kmem \in [0 .. LOWMEM - 1 -> Int], LOWMEM > 0
  PROVE  readsection(0, 0, 0, lba) = kmem
  <1> DEFINE S == SECTOR_SIZE
  <1>1. S \in Nat \ {0} /\ LOWMEM \in Nat
    BY BootAssumption
  <1>2. 0 % LOWMEM = 0
    BY <1>1
  <1> HIDE DEF S
  <1>3. Down(0, S) = 0
    BY <1>1, Rounding
  <1>4. Up(0, S) = 0
    <2> DEFINE x == 0 + S - 1
               d == x \div S
    <2>1. x \in Nat /\ x < S
      BY <1>1
    <2>2. d \in Nat /\ d * S \in Nat /\ x % S \in Nat /\ x = d * S + (x % S)
      <3> HIDE DEF x
      <3> QED BY Zenon, <1>1, <2>1, DivMod
    <2>3. d = 0
      <3> HIDE DEF x
      <3> SUFFICES ASSUME d >= 1 PROVE FALSE
        BY <2>2
      <3> HIDE DEF d
      <3>1. d * S >= S
        BY <1>1, <2>2
      <3> QED BY <1>1, <2>1, <2>2, <3>1
    <2>4. d * S = 0
      BY <1>1, <2>3
    <2> QED BY Zenon, <2>4 DEF Up
  <1>5. readsection(0, 0, 0, lba) = [a \in DOMAIN kmem |-> kmem[a]]
    <2>1. (0 % LOWMEM) + 0 = 0
      BY <1>2
    <2>2. 0 - 0 = 0 /\ 0 + 0 - 1 = -1 /\ \A a \in DOMAIN kmem : a \notin 0 .. -1
      OBVIOUS
    <2> QED BY <1>2, <1>3, <1>4, <2>1, <2>2 DEF readsection, S
  <1> QED BY Zenon, <1>5

-----------------------------------------------------------------------------
Loading == {"load_kernel", "load_segment", "seg_init", "devinit"}
Early == {"boot0", "e820", "e820.4", "boot1main", "parse_e820"} \cup Loading

\* What the file holds of a segment is in memory.
SegLoaded(n) ==
  \A k \in 0 .. kernel.segs[n].filesz - 1 :
    kmem[kernel.segs[n].va + k] = DiskByte(bootable_lba, kernel.segs[n].offset + k)

\* The loader reads from the first bootable partition.
PartitionFound ==
  \E partition \in mbr : FirstBootable(partition) /\ bootable_lba = FirstLba(partition)

BootInv ==
  /\ ph \in Nat \ {0}
  /\ mbr \subseteq 1 .. PARTITIONS
  /\ kmem \in [0 .. LOWMEM - 1 -> Int]
  /\ pc \in Early => kernel \in Kernels
  /\ pc \in {"parse_e820"} \cup Loading => PartitionFound
  /\ pc \in Early \ {"load_segment", "seg_init", "devinit"} => ph = 1
  /\ pc \in {"load_segment", "seg_init", "devinit"} =>
       \A n \in DOMAIN kernel.segs : n < ph => SegLoaded(n)
  /\ pc \in {"seg_init", "devinit"} =>
       /\ ph > Len(kernel.segs)
       /\ kmem[kernel.bsp_kstack + LINKPAGE - 1] = Frame
  /\ pc = "devinit" =>
       \A a \in kernel.edata .. kernel.end - 1 :
         \/ kmem[a] = 0
         \/ a \in kernel.bsp_kstack .. kernel.bsp_kstack + LINKPAGE - 1

\* The loader does not change its mind.
LEMMA PartitionStays ==
  ASSUME PartitionFound, UNCHANGED <<mbr, bootable_lba>>
  PROVE  PartitionFound'
  BY DEF PartitionFound, FirstBootable

LEMMA BootInitInv == Init => BootInv
  BY BootAssumption
     DEF Init, BootInit, BootInv, Early, Loading, Junk

\* The segments are loaded in the order of their headers, and a later one does
\* not overwrite an earlier one.
LEMMA SegmentStep ==
  ASSUME BootInv, load_segment
  PROVE  BootInv'
  <1> DEFINE lba == bootable_lba
  <1>1. /\ pc = "load_segment" /\ pc' = pc /\ ph <= Len(kernel.segs) /\ ph' = ph + 1
        /\ kmem' = readsection(kernel.segs[ph].va, kernel.segs[ph].memsz,
                               kernel.segs[ph].offset, lba)
        /\ UNCHANGED <<mbr, bootable_lba, kernel>>
    BY DEF load_segment
  <1>2. /\ kernel \in Kernels /\ ph \in Nat \ {0}
        /\ kmem \in [0 .. LOWMEM - 1 -> Int]
        /\ mbr \subseteq 1 .. PARTITIONS /\ PartitionFound
        /\ \A n \in DOMAIN kernel.segs : n < ph => SegLoaded(n)
    BY <1>1 DEF BootInv, Early, Loading
  <1>3. lba \in Nat
    BY <1>2, BootAssumption DEF PartitionFound, FirstLba
  <1>4. PICK text, data, va : Layout(kernel, text, data, va)
    BY <1>2, KernelsAreLaidOut
  <1>5. /\ text \in Nat /\ data \in Nat /\ va \in Nat
        /\ DOMAIN kernel.segs = 1 .. 3 /\ Len(kernel.segs) = 3
        /\ kernel.segs[1].va = KERN_BASE /\ kernel.segs[1].offset = LINKPAGE
        /\ kernel.segs[1].filesz = text /\ kernel.segs[1].memsz = text
        /\ kernel.segs[2].va = va /\ kernel.segs[2].offset = LINKPAGE + text
        /\ kernel.segs[2].filesz = data
        /\ kernel.segs[2].memsz \in Nat /\ kernel.segs[2].memsz >= data
        /\ kernel.segs[3].va = 0 /\ kernel.segs[3].offset = 0
        /\ kernel.segs[3].filesz = 0 /\ kernel.segs[3].memsz = 0
    BY Zenon, <1>4 DEF Layout
  <1>6. /\ KERN_BASE \in Nat /\ LINKPAGE \in Nat \ {0} /\ LOWMEM \in Nat
        /\ SECTOR_SIZE \in Nat \ {0}
    BY BootAssumption
  <1>7. /\ Down(va, SECTOR_SIZE) \in Nat /\ Down(va, SECTOR_SIZE) <= va
        /\ va + data < LOWMEM /\ KERN_BASE + text <= Down(va, SECTOR_SIZE)
    <2>1. /\ Down(va, SECTOR_SIZE) \in Nat
          /\ Down(va, SECTOR_SIZE) + (va % SECTOR_SIZE) = va
          /\ va % SECTOR_SIZE \in Nat
      BY Zenon, <1>5, <1>6, Rounding, DivMod
    <2> DEFINE dn == Down(va, SECTOR_SIZE)
               md == va % SECTOR_SIZE
    <2> HIDE DEF dn, md
    <2>2. dn \in Nat /\ md \in Nat /\ dn + md = va
      BY <2>1 DEF dn, md
    <2>3. KERN_BASE + text <= dn
      BY <1>4 DEF Layout, dn
    <2>4. va + data < LOWMEM
      BY <1>4, <1>6 DEF Layout
    <2> QED BY <1>5, <2>2, <2>3, <2>4 DEF dn
  <1>8. /\ kmem' \in [0 .. LOWMEM - 1 -> Int]
        /\ \A n \in 1 .. 3 : n < ph + 1 =>
             \A k \in 0 .. kernel.segs[n].filesz - 1 :
               kmem'[kernel.segs[n].va + k] = DiskByte(lba, kernel.segs[n].offset + k)
    <2>1. CASE ph = 1
      <3>1. KERN_BASE < LOWMEM /\ KERN_BASE + text <= LOWMEM
        BY <1>5, <1>6, <1>7
      <3>2. KERN_BASE % SECTOR_SIZE = LINKPAGE % SECTOR_SIZE
        BY <1>4 DEF Layout
      <3>3. kmem' = readsection(KERN_BASE, text, LINKPAGE, lba)
        BY <1>1, <1>5, <2>1
      <3>4. /\ kmem' \in [0 .. LOWMEM - 1 -> Int]
            /\ \A a \in 0 .. LOWMEM - 1 : KERN_BASE <= a /\ a < KERN_BASE + text =>
                 kmem'[a] = DiskByte(lba, LINKPAGE + (a - KERN_BASE))
        <4> DEFINE new == readsection(KERN_BASE, text, LINKPAGE, lba)
        <4>1. new = readsection(KERN_BASE, text, LINKPAGE, lba) /\ kmem' = new
          BY <3>3
        <4> HIDE DEF new, lba
        <4>2. SectionIn(new, KERN_BASE, text, LINKPAGE, lba)
          <5>1. /\ KERN_BASE \in Nat /\ text \in Nat /\ LINKPAGE \in Nat /\ lba \in Nat
                /\ kmem \in [0 .. LOWMEM - 1 -> Int]
            BY <1>2, <1>3, <1>5, <1>6
          <5> QED BY Zenon, <3>1, <3>2, <4>1, <5>1, SectionRead
        <4> QED BY Zenon, <4>1, <4>2 DEF SectionIn
      <3>5. ASSUME NEW k \in 0 .. text - 1
            PROVE  kmem'[KERN_BASE + k] = DiskByte(lba, LINKPAGE + k)
        <4>1. /\ KERN_BASE + k \in 0 .. LOWMEM - 1
              /\ KERN_BASE <= KERN_BASE + k /\ KERN_BASE + k < KERN_BASE + text
              /\ (KERN_BASE + k) - KERN_BASE = k
          BY <1>5, <1>6, <3>1
        <4> QED BY <3>4, <4>1
      <3> QED BY <1>5, <2>1, <3>4, <3>5
    <2>2. CASE ph = 2
      <3> DEFINE m == kernel.segs[2].memsz
      <3>1. va < LOWMEM /\ m \in Nat /\ LINKPAGE + text \in Nat /\ m >= data
        BY <1>5, <1>6, <1>7
      <3>2. va % SECTOR_SIZE = (LINKPAGE + text) % SECTOR_SIZE
        BY <1>4 DEF Layout
      <3>3. kmem' = readsection(va, m, LINKPAGE + text, lba)
        BY <1>1, <1>5, <2>2
      <3> HIDE DEF m
      <3>4. /\ kmem' \in [0 .. LOWMEM - 1 -> Int]
            /\ \A a \in 0 .. LOWMEM - 1 :
                 /\ va <= a /\ a < va + m =>
                      kmem'[a] = DiskByte(lba, (LINKPAGE + text) + (a - va))
                 /\ a < Down(va, SECTOR_SIZE) => kmem'[a] = kmem[a]
        <4> DEFINE offset == LINKPAGE + text
                   new == readsection(va, m, offset, lba)
        <4>1. new = readsection(va, m, offset, lba) /\ kmem' = new
          BY <3>3
        <4>2. offset \in Nat /\ va % SECTOR_SIZE = offset % SECTOR_SIZE
          BY <3>1, <3>2
        <4> HIDE DEF new, offset, lba
        <4>3. SectionIn(new, va, m, offset, lba)
          <5>1. /\ va \in Nat /\ m \in Nat /\ offset \in Nat /\ lba \in Nat
                /\ kmem \in [0 .. LOWMEM - 1 -> Int]
            BY <1>2, <1>3, <1>5, <3>1, <4>2
          <5>2. va < LOWMEM /\ va % SECTOR_SIZE = offset % SECTOR_SIZE
            BY <3>1, <4>2
          <5>3. new = readsection(va, m, offset, lba)
            BY <4>1
          <5> QED BY Zenon, <5>1, <5>2, <5>3, SectionRead
        <4> QED BY Zenon, <4>1, <4>3 DEF SectionIn, offset
      <3>5. ASSUME NEW k \in 0 .. data - 1
            PROVE  kmem'[va + k] = DiskByte(lba, (LINKPAGE + text) + k)
        <4>1. /\ va + k \in 0 .. LOWMEM - 1 /\ va <= va + k /\ va + k < va + m
              /\ (va + k) - va = k
          BY <1>5, <1>6, <1>7, <3>1
        <4> QED BY <3>4, <4>1
      <3>6. ASSUME NEW k \in 0 .. text - 1
            PROVE  kmem'[KERN_BASE + k] = DiskByte(lba, LINKPAGE + k)
        <4>1. /\ KERN_BASE + k \in 0 .. LOWMEM - 1
              /\ KERN_BASE + k < Down(va, SECTOR_SIZE)
          BY <1>5, <1>6, <1>7
        <4>2. kmem[KERN_BASE + k] = DiskByte(lba, LINKPAGE + k)
          <5>1. 1 \in DOMAIN kernel.segs /\ 1 < ph
            BY <1>5, <2>2
          <5>2. SegLoaded(1)
            BY Zenon, <1>2, <5>1
          <5> QED BY Zenon, <1>5, <5>2 DEF SegLoaded
        <4> QED BY <3>4, <4>1, <4>2
      <3>7. \A n \in 1 .. 3 : n < ph + 1 => n = 1 \/ n = 2
        BY <2>2
      <3>8. \A k \in 0 .. kernel.segs[1].filesz - 1 :
              kmem'[kernel.segs[1].va + k] = DiskByte(lba, kernel.segs[1].offset + k)
        BY <1>5, <3>6
      <3>9. \A k \in 0 .. kernel.segs[2].filesz - 1 :
              kmem'[kernel.segs[2].va + k] = DiskByte(lba, kernel.segs[2].offset + k)
        BY <1>5, <3>5
      <3> QED BY Zenon, <3>4, <3>7, <3>8, <3>9
    <2>3. CASE ph = 3
      <3>1. kmem' = readsection(0, 0, 0, lba)
        BY <1>1, <1>5, <2>3
      <3>2. kmem' = kmem
        BY <1>2, <1>3, <1>5, <1>6, <1>7, <3>1, EmptySection
      <3>3. \A k \in 0 .. kernel.segs[3].filesz - 1 : FALSE
        BY <1>5
      <3> QED BY <1>2, <1>5, <2>3, <3>2, <3>3 DEF SegLoaded
    <2>4. ph = 1 \/ ph = 2 \/ ph = 3
      BY <1>1, <1>2, <1>5
    <2> QED BY Zenon, <2>1, <2>2, <2>3, <2>4
  <1>9. \A n \in DOMAIN kernel'.segs : n < ph' => SegLoaded(n)'
    BY Zenon, <1>1, <1>5, <1>8 DEF SegLoaded
  <1>10. PartitionFound' /\ kernel' \in Kernels /\ mbr' \subseteq 1 .. PARTITIONS
         /\ ph' \in Nat \ {0}
    BY <1>1, <1>2, PartitionStays
  <1> QED BY <1>1, <1>8, <1>9, <1>10 DEF BootInv

\* The frame on the boot stack and the clearing of the data around the stack
\* leave what the file holds of the segments alone.
LEMMA ImageStep ==
  ASSUME BootInv, exec_kernel \/ seg_init
  PROVE  BootInv'
  <1>1. /\ pc \in {"load_segment", "seg_init"} /\ ph > Len(kernel.segs)
        /\ UNCHANGED <<mbr, bootable_lba, kernel, ph>>
    BY DEF exec_kernel, seg_init, BootInv
  <1>2. /\ kernel \in Kernels /\ kmem \in [0 .. LOWMEM - 1 -> Int]
        /\ \A n \in DOMAIN kernel.segs : n < ph => SegLoaded(n)
    BY <1>1 DEF BootInv, Early, Loading
  <1>3. PICK text, data, va : Layout(kernel, text, data, va)
    BY <1>2, KernelsAreLaidOut
  <1> DEFINE ks == kernel.bsp_kstack
  <1>4. KERN_BASE \in Nat /\ LINKPAGE \in Nat \ {0} /\ LOWMEM \in Nat
    BY BootAssumption
  <1>5. /\ text \in Nat /\ data \in Nat /\ va \in Nat
        /\ DOMAIN kernel.segs = 1 .. 3 /\ Len(kernel.segs) = 3
        /\ kernel.segs[1].va = KERN_BASE /\ kernel.segs[1].filesz = text
        /\ kernel.segs[2].va = va /\ kernel.segs[2].filesz = data
        /\ kernel.segs[3].filesz = 0
        /\ kernel.edata = va + data /\ ks \in Nat /\ kernel.end \in Nat
        /\ kernel.edata <= ks /\ ks + LINKPAGE <= kernel.end /\ kernel.end <= LOWMEM
    BY Zenon, <1>3 DEF Layout
  <1>6. KERN_BASE + text <= va
    <2>1. /\ Down(va, SECTOR_SIZE) \in Nat
          /\ Down(va, SECTOR_SIZE) + (va % SECTOR_SIZE) = va
          /\ va % SECTOR_SIZE \in Nat
      BY Zenon, <1>5, BootAssumption, Rounding, DivMod
    <2> DEFINE dn == Down(va, SECTOR_SIZE)
               md == va % SECTOR_SIZE
    <2> HIDE DEF dn, md
    <2>2. dn \in Nat /\ md \in Nat /\ dn + md = va
      BY <2>1 DEF dn, md
    <2>3. KERN_BASE + text <= dn
      BY <1>3 DEF Layout, dn
    <2> QED BY <1>4, <1>5, <2>2, <2>3
  <1>7. ASSUME NEW n \in 1 .. 3, NEW k \in 0 .. kernel.segs[n].filesz - 1
        PROVE  kernel.segs[n].va + k \in 0 .. kernel.edata - 1
    <2>1. n = 1 \/ n = 2 \/ n = 3
      OBVIOUS
    <2> QED BY <1>4, <1>5, <1>6, <2>1
  <1>8. /\ kmem' \in [0 .. LOWMEM - 1 -> Int]
        /\ \A a \in 0 .. kernel.edata - 1 : kmem'[a] = kmem[a]
        /\ kmem'[ks + LINKPAGE - 1] = Frame
    <2>1. CASE exec_kernel
      <3>1. kmem' = [kmem EXCEPT ![ks + LINKPAGE - 1] = Frame]
        BY <2>1 DEF exec_kernel
      <3>2. ks + LINKPAGE - 1 \in 0 .. LOWMEM - 1
        BY <1>4, <1>5
      <3>3. \A a \in 0 .. kernel.edata - 1 :
              a \in 0 .. LOWMEM - 1 /\ a # ks + LINKPAGE - 1
        BY <1>4, <1>5
      <3>4. Frame \in Int
        BY DEF Frame
      <3> HIDE DEF ks
      <3> QED BY <1>2, <3>1, <3>2, <3>3, <3>4
    <2>2. CASE seg_init
      <3>1. kmem' = [a \in 0 .. LOWMEM - 1 |->
               IF a \in kernel.edata .. ks - 1 \cup ks + LINKPAGE .. kernel.end - 1
               THEN 0 ELSE kmem[a]]
        BY <1>2, <2>2 DEF seg_init
      <3>2. kmem[ks + LINKPAGE - 1] = Frame
        BY <2>2 DEF seg_init, BootInv
      <3>3. /\ ks + LINKPAGE - 1 \in 0 .. LOWMEM - 1
            /\ ks + LINKPAGE - 1 \notin kernel.edata .. ks - 1
            /\ ks + LINKPAGE - 1 \notin ks + LINKPAGE .. kernel.end - 1
        BY <1>4, <1>5
      <3>4. \A a \in 0 .. kernel.edata - 1 :
              /\ a \in 0 .. LOWMEM - 1
              /\ a \notin kernel.edata .. ks - 1
              /\ a \notin ks + LINKPAGE .. kernel.end - 1
        BY <1>4, <1>5
      <3> QED BY <1>2, <3>1, <3>2, <3>3, <3>4
    <2> QED BY <2>1, <2>2
  <1>9. \A n \in DOMAIN kernel.segs : SegLoaded(n)'
    <2> SUFFICES ASSUME NEW n \in 1 .. 3, NEW k \in 0 .. kernel.segs[n].filesz - 1
                 PROVE  kmem'[kernel.segs[n].va + k]
                          = DiskByte(bootable_lba, kernel.segs[n].offset + k)
      BY <1>1, <1>5 DEF SegLoaded
    <2>1. kmem[kernel.segs[n].va + k] = DiskByte(bootable_lba, kernel.segs[n].offset + k)
      <3>1. n < ph
        BY <1>1, <1>5 DEF BootInv
      <3> QED BY Zenon, <1>2, <1>5, <3>1 DEF SegLoaded
    <2> QED BY <1>7, <1>8, <2>1
  <1>10. seg_init => \A a \in kernel.edata .. kernel.end - 1 :
                       \/ kmem'[a] = 0
                       \/ a \in ks .. ks + LINKPAGE - 1
    <2> SUFFICES ASSUME seg_init, NEW a \in kernel.edata .. kernel.end - 1,
                        a \notin ks .. ks + LINKPAGE - 1
                 PROVE  kmem'[a] = 0
      OBVIOUS
    <2>1. a \in kernel.edata .. ks - 1 \cup ks + LINKPAGE .. kernel.end - 1
      BY <1>4, <1>5
    <2>2. a \in DOMAIN kmem
      BY <1>2, <1>4, <1>5
    <2> QED BY <2>1, <2>2 DEF seg_init
  <1>11. pc' \in {"seg_init", "devinit"} /\ (pc' = "devinit" => seg_init)
    BY DEF exec_kernel, seg_init
  <1>12. PartitionFound' /\ ph \in Nat \ {0}
         /\ mbr \subseteq 1 .. PARTITIONS
    BY <1>1, PartitionStays DEF BootInv, Loading
  <1> HIDE DEF ks
  <1> QED BY <1>1, <1>2, <1>8, <1>9, <1>10, <1>11, <1>12
          DEF BootInv, Early, Loading, ks

LEMMA BootStep ==
  ASSUME BootInv, [Next]_vars
  PROVE  BootInv'
  <1>1. CASE BootNext /\ UNCHANGED mapVars
    <2>1. CASE load_boot1 \/ e820 \/ e820_fails \/ e820_ends \/ parse_e820
      <3>1. /\ UNCHANGED <<mbr, bootable_lba, kernel, ph, kmem>>
            /\ \/ /\ pc \in {"boot0", "e820", "e820.4"}
                  /\ pc' \in {"e820", "e820.4", "boot1main", "spin"}
               \/ pc = "parse_e820" /\ pc' = "load_kernel"
        BY <2>1 DEF load_boot1, e820, e820_fails, e820_ends, parse_e820
      <3> QED BY <3>1, PartitionStays DEF BootInv, Early, Loading
    <2>2. CASE boot1main
      <3>1. pc' = "parse_e820" => PartitionFound'
        BY <2>2 DEF boot1main, PartitionFound, FirstBootable
      <3> QED BY <2>2, <3>1 DEF boot1main, BootInv, Early, Loading
    <2>3. CASE load_kernel
      <3>1. /\ UNCHANGED <<mbr, bootable_lba, kernel, ph, kmem>>
            /\ pc = "load_kernel" /\ pc' \in {"load_segment", "panic"}
        BY <2>3 DEF load_kernel
      <3>2. kernel \in Kernels /\ ph = 1
        BY <3>1 DEF BootInv, Early, Loading
      <3>3. \A n \in DOMAIN kernel.segs : ~(n < ph)
        <4>1. PICK text, data, va : Layout(kernel, text, data, va)
          BY <3>2, KernelsAreLaidOut
        <4> QED BY <3>2, <4>1 DEF Layout
      <3> QED BY <3>1, <3>2, <3>3, PartitionStays DEF BootInv, Early, Loading
    <2>4. CASE load_segment
      BY <2>4, SegmentStep
    <2>5. CASE exec_kernel \/ seg_init
      BY <2>5, ImageStep
    <2>6. CASE devinit
      <3>1. /\ pc' = "pmmap_init" /\ mbr' = {} /\ ph' = 1
            /\ kmem' = [a \in DOMAIN kmem |-> Junk]
        BY <2>6 DEF devinit
      <3> QED BY <3>1 DEF BootInv, Early, Loading, Junk
    <2> QED BY <1>1, <2>1, <2>2, <2>3, <2>4, <2>5, <2>6 DEF BootNext
  <1>2. CASE \/ \E base \in Bases, length \in Lengths, type \in Types :
                  pmmap_init(base, length, type)
             \/ pmmap_init_ends \/ pmmap_merge \/ pmmap_merge_ends \/ pmem_init
    <2>1. /\ UNCHANGED <<mbr, ph, kmem>>
          /\ pc' \in {"pmmap_init", "pmmap_merge", "pmem_init", "done", "KERN_PANIC"}
      BY Zenon, <1>2 DEF pmmap_init, pmmap_insert, pmmap_init_ends, pmmap_merge,
                  pmmap_merge_ends, pmem_init, handedOver
    <2> QED BY <2>1 DEF BootInv, Early, Loading
  <1>3. CASE UNCHANGED vars
    <2>1. UNCHANGED <<pc, mbr, bootable_lba, kernel, ph, kmem>>
      BY <1>3 DEF vars, bootVars
    <2> QED BY <2>1, PartitionStays DEF BootInv, SegLoaded
  <1> QED BY <1>1, <1>2, <1>3 DEF Next

\* When the kernel starts to work, its code and data are those of the file on
\* the first bootable partition, the rest of its data is zero and its stack is
\* untouched, however large its parts are (readsection, load_kernel, seg_init).
THEOREM KernelIsLoaded == Spec => []KernelLoaded
  <1>1. BootInv => KernelLoaded
    <2> SUFFICES ASSUME BootInv, pc = "devinit"
                 PROVE  KernelLoaded
      BY DEF KernelLoaded
    <2>1. \A n \in DOMAIN kernel.segs : SegLoaded(n)
      <3>1. kernel \in Kernels /\ ph > Len(kernel.segs) /\ ph \in Nat
        BY DEF BootInv, Early, Loading
      <3>2. DOMAIN kernel.segs = 1 .. 3 /\ Len(kernel.segs) = 3
        BY <3>1, KernelsAreLaidOut DEF Layout
      <3> QED BY <3>1, <3>2 DEF BootInv
    <2>2. PartitionFound
      BY DEF BootInv, Loading
    <2> QED BY <2>1, <2>2 DEF BootInv, KernelLoaded, SegLoaded, PartitionFound
  <1> QED BY <1>1, BootInitInv, BootStep, PTL DEF Spec

-----------------------------------------------------------------------------
(* Sequences.                                                              *)

\* What the elements of a spliced sequence are.
Spliced(t, S, s, i, e, j) ==
  /\ t \in Seq(S) /\ Len(t) = Len(s) + i + 2 - j
  /\ \A k \in 1 .. i : t[k] = s[k]
  /\ t[i + 1] = e
  /\ \A k \in i + 2 .. Len(t) : t[k] = s[k + j - i - 2]

LEMMA SpliceProperties ==
  ASSUME NEW S, NEW s \in Seq(S), NEW e \in S,
         NEW i \in Nat, NEW j \in Nat, i <= Len(s), i < j, j <= Len(s) + 1,
         NEW t, t = Splice(s, i, e, j)
  PROVE  Spliced(t, S, s, i, e, j)
  <1> DEFINE a == SubSeq(s, 1, i)
             b == SubSeq(s, j, Len(s))
  <1>1. /\ a \in Seq(S) /\ Len(a) = i
        /\ \A k \in 1 .. i : a[k] = s[k]
    OBVIOUS
  <1>2. /\ b \in Seq(S) /\ Len(b) = Len(s) - j + 1
        /\ \A k \in 1 .. Len(s) - j + 1 : b[k] = s[j + k - 1]
    OBVIOUS
  <1>3. t = a \o <<e>> \o b
    BY DEF Splice
  <1> HIDE DEF a, b
  <1>4. /\ a \o <<e>> \in Seq(S) /\ Len(a \o <<e>>) = i + 1
        /\ \A k \in 1 .. i + 1 : (a \o <<e>>)[k] = IF k <= i THEN s[k] ELSE e
    BY <1>1
  <1> DEFINE c == a \o <<e>>
  <1> HIDE DEF c
  <1>5. /\ c \in Seq(S) /\ Len(c) = i + 1
        /\ \A k \in 1 .. i + 1 : c[k] = IF k <= i THEN s[k] ELSE e
    BY <1>4 DEF c
  <1>6. /\ c \o b \in Seq(S) /\ Len(c \o b) = Len(c) + Len(b)
        /\ \A k \in 1 .. Len(c) + Len(b) :
              (c \o b)[k] = IF k <= Len(c) THEN c[k] ELSE b[k - Len(c)]
    <2> SUFFICES ASSUME c \in Seq(S), b \in Seq(S)
                 PROVE  /\ c \o b \in Seq(S) /\ Len(c \o b) = Len(c) + Len(b)
                        /\ \A k \in 1 .. Len(c) + Len(b) :
                             (c \o b)[k] = IF k <= Len(c) THEN c[k] ELSE b[k - Len(c)]
      BY <1>2, <1>5
    <2>1. c \o b \in Seq(S) /\ Len(c \o b) = Len(c) + Len(b)
      OBVIOUS
    <2>2. \A k \in 1 .. Len(c) + Len(b) :
            (c \o b)[k] = IF k <= Len(c) THEN c[k] ELSE b[k - Len(c)]
      OBVIOUS
    <2> QED BY <2>1, <2>2
  <1>7. t = c \o b
    BY <1>3 DEF c
  <1>8. ASSUME NEW k \in 1 .. Len(s) + i + 2 - j, k > i + 1
        PROVE  (c \o b)[k] = s[k + j - i - 2]
    <2>1. (c \o b)[k] = b[k - (i + 1)] /\ k - (i + 1) \in 1 .. Len(s) - j + 1
      BY <1>2, <1>5, <1>6, <1>8
    <2>2. b[k - (i + 1)] = s[j + (k - (i + 1)) - 1]
      BY <1>2, <2>1
    <2>3. j + (k - (i + 1)) - 1 = k + j - i - 2
      OBVIOUS
    <2> QED BY <2>1, <2>2, <2>3
  <1>9. /\ \A k \in 1 .. i : (c \o b)[k] = s[k]
        /\ (c \o b)[i + 1] = e
    BY <1>2, <1>5, <1>6
  <1>10. Len(t) = Len(s) + i + 2 - j
    BY <1>2, <1>5, <1>6, <1>7
  <1>11. \A k \in i + 2 .. Len(t) : k \in 1 .. Len(s) + i + 2 - j /\ k > i + 1
    BY <1>10
  <1> QED BY Zenon, <1>6, <1>7, <1>8, <1>9, <1>10, <1>11 DEF Spliced

-----------------------------------------------------------------------------
(* The invariant.                                                          *)

\* A range of the boot loader, as far as it lies below the last address, is
\* part of one range of the list.
Contained ==
  pc # "KERN_PANIC" => \A e \in mmap : \E k \in DOMAIN pmmap_list :
    /\ pmmap_list[k].type = e.type
    /\ pmmap_list[k].start <= e.base
    /\ e.base + e.length <= pmmap_list[k].end \/ pmmap_list[k].end = MAXADDR

MapType ==
  /\ slot \in Nat \ {0}
  /\ pmmap_list \in Seq(Range32)
  /\ mmap \subseteq [base : 0 .. MAXADDR, length : Nat, type : Types]

ListInv == MapType /\ MapSorted /\ MapKeepsMemory /\ Contained

MapInv == ListInv /\ NormalIsUsable /\ UsableIsNormal

\* The steps that leave the list and what was listed alone.
LEMMA ListFrame ==
  ASSUME ListInv, UNCHANGED <<pmmap_list, mmap>>, slot' \in Nat \ {0},
         pc # "KERN_PANIC" \/ pc' = pc
  PROVE  ListInv'
  BY DEF ListInv, MapType, MapSorted, MapKeepsMemory, Contained, Listed

\* What the elements of the list are.
LEMMA ListElements ==
  ASSUME MapType
  PROVE  /\ Len(pmmap_list) \in Nat /\ DOMAIN pmmap_list = 1 .. Len(pmmap_list)
         /\ \A k \in DOMAIN pmmap_list :
              /\ pmmap_list[k] \in Range32
              /\ pmmap_list[k].start \in Nat /\ pmmap_list[k].start <= MAXADDR
              /\ pmmap_list[k].end \in Nat /\ pmmap_list[k].end <= MAXADDR
              /\ pmmap_list[k].type \in Types
  <1>1. /\ Len(pmmap_list) \in Nat /\ DOMAIN pmmap_list = 1 .. Len(pmmap_list)
        /\ \A k \in DOMAIN pmmap_list : pmmap_list[k] \in Range32
    BY DEF MapType
  <1>2. \A r \in Range32 : /\ r.start \in Nat /\ r.start <= MAXADDR
                            /\ r.end \in Nat /\ r.end <= MAXADDR
                            /\ r.type \in Types
    BY MapAssumption DEF Range32
  <1> QED BY <1>1, <1>2

\* The list stays sorted, gets the new range and keeps the others.
LEMMA InsertList ==
  ASSUME MapType, MapSorted, Len(pmmap_list) # SLOTS, NEW r \in Range32,
         NEW place \in 0 .. Len(pmmap_list), PlaceFor(r, place),
         pmmap_list' = Splice(pmmap_list, place, r, place + 1)
  PROVE  /\ MapSorted' /\ pmmap_list' \in Seq(Range32)
         /\ \A k \in DOMAIN pmmap_list :
              \E j \in DOMAIN pmmap_list' : pmmap_list'[j] = pmmap_list[k]
         /\ \E j \in DOMAIN pmmap_list' : pmmap_list'[j] = r
         /\ \A j \in DOMAIN pmmap_list' :
              pmmap_list'[j] = r \/ \E k \in DOMAIN pmmap_list : pmmap_list'[j] = pmmap_list[k]
  <1> DEFINE i == place + 1
             n == Len(pmmap_list)
  <1>1. n \in Nat /\ n + 1 <= SLOTS /\ DOMAIN pmmap_list = 1 .. n
    BY MapAssumption DEF MapType, MapSorted
  <1>2. /\ i \in 1 .. n + 1
        /\ \A k \in 1 .. i - 1 : pmmap_list[k].start <= r.start
        /\ i <= n => r.start < pmmap_list[i].start
    <2>1. r.start \in Int
      BY MapAssumption DEF Range32
    <2>2. \A k \in 1 .. n : pmmap_list[k].start \in Int
      BY <1>1, ListElements
    <2> QED BY <1>1, <2>1, <2>2 DEF PlaceFor
  <1> HIDE DEF i
  <1>3. /\ pmmap_list' \in Seq(Range32) /\ Len(pmmap_list') = n + 1
        /\ \A k \in 1 .. n + 1 :
             pmmap_list'[k] = IF k < i THEN pmmap_list[k]
                              ELSE IF k = i THEN r ELSE pmmap_list[k - 1]
    <2> DEFINE t == Splice(pmmap_list, place, r, i)
    <2>1. /\ pmmap_list \in Seq(Range32) /\ place \in Nat /\ i \in Nat
          /\ place <= Len(pmmap_list) /\ place < i /\ i <= Len(pmmap_list) + 1
          /\ t = Splice(pmmap_list, place, r, i)
      BY DEF MapType, i
    <2>2. pmmap_list' = t
      BY DEF i
    <2> HIDE DEF t
    <2>3. Spliced(t, Range32, pmmap_list, place, r, i)
      BY Zenon, <2>1, SpliceProperties
    <2>4. place \in Int /\ i = place + 1 /\ Len(pmmap_list) + place + 2 - i = n + 1
      BY <1>1 DEF i
    <2>5. \A k \in 1 .. n + 1 : t[k] = IF k < i THEN pmmap_list[k]
                                        ELSE IF k = i THEN r ELSE pmmap_list[k - 1]
      <3>1. \A k \in i + 1 .. n + 1 : k + i - place - 2 = k - 1
        BY <1>1, <2>4
      <3> QED BY <1>1, <2>3, <2>4, <3>1 DEF Spliced
    <2> QED BY <2>2, <2>3, <2>4, <2>5 DEF Spliced
  <1>4. DOMAIN pmmap_list' = 1 .. n + 1
    BY <1>1, <1>3
  <1> HIDE DEF n
  <1>5. \A k \in 1 .. n : pmmap_list[k].start \in Int
    BY <1>1, ListElements
  <1>6. r.start \in Int
    BY MapAssumption DEF Range32
  <1>7. \A j, k \in 1 .. n : j < k => pmmap_list[j].start <= pmmap_list[k].start
    BY <1>1 DEF MapSorted
  <1>8. ASSUME NEW j \in 1 .. n + 1, NEW k \in 1 .. n + 1, j < k
        PROVE  pmmap_list'[j].start <= pmmap_list'[k].start
    <2>1. CASE k < i
      BY <1>1, <1>2, <1>3, <1>7, <1>8, <2>1
    <2>2. CASE k = i
      BY <1>1, <1>2, <1>3, <1>8, <2>2
    <2>3. CASE k > i /\ j > i
      <3>1. pmmap_list'[j] = pmmap_list[j - 1] /\ pmmap_list'[k] = pmmap_list[k - 1]
        BY <1>1, <1>2, <1>3, <2>3
      <3> QED BY <1>1, <1>2, <1>7, <1>8, <2>3, <3>1
    <2>4. CASE k > i /\ j = i
      <3>1. pmmap_list'[j] = r /\ pmmap_list'[k] = pmmap_list[k - 1]
        BY <1>1, <1>2, <1>3, <2>4
      <3>2. i <= k - 1 /\ k - 1 \in 1 .. n /\ i \in 1 .. n
        BY <1>1, <1>2, <2>4
      <3>3. pmmap_list[i].start <= pmmap_list[k - 1].start
        BY <1>5, <1>7, <3>2
      <3>4. r.start < pmmap_list[i].start
        BY <1>1, <1>2, <3>2
      <3>5. r.start <= pmmap_list[k - 1].start
        BY <1>5, <1>6, <3>2, <3>3, <3>4
      <3> QED BY <3>1, <3>5
    <2>5. CASE k > i /\ j < i
      <3>1. pmmap_list'[j] = pmmap_list[j] /\ pmmap_list'[k] = pmmap_list[k - 1]
        BY <1>1, <1>2, <1>3, <2>5
      <3>2. j <= k - 1 /\ k - 1 \in 1 .. n /\ j \in 1 .. n
        BY <1>1, <1>2, <2>5
      <3> QED BY <1>5, <1>7, <3>1, <3>2
    <2> QED BY <1>1, <1>2, <2>1, <2>2, <2>3, <2>4, <2>5
  <1>9. MapSorted'
    BY <1>1, <1>3, <1>4, <1>8 DEF MapSorted
  <1>10. ASSUME NEW k \in 1 .. n
         PROVE  \E j \in 1 .. n + 1 : pmmap_list'[j] = pmmap_list[k]
    <2>1. CASE k < i
      BY <1>1, <1>2, <1>3, <2>1
    <2>2. CASE k >= i
      <3>1. k + 1 \in 1 .. n + 1 /\ pmmap_list'[k + 1] = pmmap_list[(k + 1) - 1]
        BY <1>1, <1>2, <1>3, <2>2
      <3>2. (k + 1) - 1 = k
        BY <1>1
      <3> QED BY <3>1, <3>2
    <2> QED BY <1>1, <1>2, <2>1, <2>2
  <1>11. i \in 1 .. n + 1 /\ pmmap_list'[i] = r
    BY <1>1, <1>2, <1>3
  <1>12. ASSUME NEW j \in 1 .. n + 1
         PROVE  pmmap_list'[j] = r \/ \E k \in 1 .. n : pmmap_list'[j] = pmmap_list[k]
    <2>1. CASE j < i
      BY <1>1, <1>2, <1>3, <2>1
    <2>2. CASE j = i
      BY <1>11, <2>2
    <2>3. CASE j > i
      <3>1. j - 1 \in 1 .. n /\ pmmap_list'[j] = pmmap_list[j - 1]
        BY <1>1, <1>2, <1>3, <2>3
      <3> QED BY <3>1
    <2> QED BY <1>1, <1>2, <2>1, <2>2, <2>3
  <1>13. /\ \A k \in DOMAIN pmmap_list :
               \E j \in DOMAIN pmmap_list' : pmmap_list'[j] = pmmap_list[k]
         /\ \E j \in DOMAIN pmmap_list' : pmmap_list'[j] = r
    BY <1>1, <1>4, <1>10, <1>11
  <1>14. \A j \in DOMAIN pmmap_list' :
           pmmap_list'[j] = r \/ \E k \in DOMAIN pmmap_list : pmmap_list'[j] = pmmap_list[k]
    BY <1>1, <1>4, <1>12
  <1> QED BY Zenon, <1>3, <1>9, <1>13, <1>14

\* Two neighbours become one range; the list stays sorted and keeps the others.
LEMMA MergeList ==
  ASSUME MapType, MapSorted, NEW i \in 1 .. Len(pmmap_list) - 1,
         NEW m \in Range32, m.start = pmmap_list[i].start,
         pmmap_list' = Splice(pmmap_list, i - 1, m, i + 2)
  PROVE  /\ MapSorted' /\ pmmap_list' \in Seq(Range32)
         /\ \A k \in DOMAIN pmmap_list \ {i, i + 1} :
              \E j \in DOMAIN pmmap_list' : pmmap_list'[j] = pmmap_list[k]
         /\ \E j \in DOMAIN pmmap_list' : pmmap_list'[j] = m
         /\ \A j \in DOMAIN pmmap_list' :
              pmmap_list'[j] = m \/ \E k \in DOMAIN pmmap_list : pmmap_list'[j] = pmmap_list[k]
  <1> DEFINE n == Len(pmmap_list)
  <1>1. n \in Nat /\ n <= SLOTS /\ DOMAIN pmmap_list = 1 .. n /\ i \in 1 .. n - 1
    BY MapAssumption DEF MapType, MapSorted
  <1>2. /\ pmmap_list' \in Seq(Range32) /\ Len(pmmap_list') = n - 1
        /\ \A k \in 1 .. n - 1 :
             pmmap_list'[k] = IF k < i THEN pmmap_list[k]
                              ELSE IF k = i THEN m ELSE pmmap_list[k + 1]
    <2>1. pmmap_list \in Seq(Range32)
      BY DEF MapType
    <2> DEFINE p == i - 1
               q == i + 2
               t == Splice(pmmap_list, p, m, q)
    <2>2. /\ p \in Nat /\ q \in Nat
          /\ p <= Len(pmmap_list) /\ p < q /\ q <= Len(pmmap_list) + 1
          /\ p = i - 1 /\ q = i + 2 /\ i \in Int /\ t = Splice(pmmap_list, p, m, q)
      BY <1>1
    <2>3. pmmap_list' = t
      OBVIOUS
    <2>4. Len(pmmap_list) + p + 2 - q = n - 1
      <3>1. \A a, b \in Int : a + (b - 1) + 2 - (b + 2) = a - 1
        OBVIOUS
      <3>2. Len(pmmap_list) \in Int /\ i \in Int
        BY <1>1
      <3> QED BY Zenon, <3>1, <3>2
    <2> HIDE DEF p, q, t
    <2>5. Spliced(t, Range32, pmmap_list, p, m, q)
      BY Zenon, <2>1, <2>2, SpliceProperties
    <2>6. \A k \in 1 .. n - 1 : t[k] = IF k < i THEN pmmap_list[k]
                                        ELSE IF k = i THEN m ELSE pmmap_list[k + 1]
      <3> TAKE k \in 1 .. n - 1
      <3>1. /\ \A l \in 1 .. p : t[l] = pmmap_list[l]
            /\ t[p + 1] = m
            /\ \A l \in p + 2 .. n - 1 : t[l] = pmmap_list[l + q - p - 2]
        BY Zenon, <2>4, <2>5 DEF Spliced
      <3>2. CASE k < i
        <4>1. k \in 1 .. p
          BY <2>2, <3>2
        <4> QED BY Zenon, <3>1, <3>2, <4>1
      <3>3. CASE k = i
        <4>1. p + 1 = k /\ ~(k < i)
          BY <2>2, <3>3
        <4> QED BY Zenon, <3>1, <3>3, <4>1
      <3>4. CASE k > i
        <4>1. k \in p + 2 .. n - 1 /\ k + q - p - 2 = k + 1 /\ k # i /\ ~(k < i)
          BY <1>1, <2>2, <3>4
        <4> QED BY Zenon, <3>1, <4>1
      <3> QED BY <1>1, <3>2, <3>3, <3>4
    <2> QED BY <2>3, <2>5, <2>4, <2>6 DEF Spliced
  <1>3. DOMAIN pmmap_list' = 1 .. n - 1
    BY <1>1, <1>2
  <1>4. \A k \in 1 .. n : pmmap_list[k].start \in Int
    BY <1>1, ListElements
  <1>5. \A j, k \in 1 .. n : j < k => pmmap_list[j].start <= pmmap_list[k].start
    BY <1>1 DEF MapSorted
  <1> HIDE DEF n
  <1>6. \A k \in 1 .. n - 1 :
          pmmap_list'[k].start = pmmap_list[IF k <= i THEN k ELSE k + 1].start
    BY <1>1, <1>2
  <1>7. ASSUME NEW j \in 1 .. n - 1, NEW k \in 1 .. n - 1, j < k
        PROVE  pmmap_list'[j].start <= pmmap_list'[k].start
    <2> DEFINE P(x) == IF x <= i THEN x ELSE x + 1
    <2>1. P(j) \in 1 .. n /\ P(k) \in 1 .. n /\ P(j) < P(k)
      BY <1>1, <1>7
    <2>2. pmmap_list[P(j)].start <= pmmap_list[P(k)].start
      BY <1>5, <2>1
    <2> QED BY <1>6, <2>2
  <1>8. MapSorted'
    BY <1>1, <1>2, <1>3, <1>7, MapAssumption DEF MapSorted
  <1>9. ASSUME NEW k \in (1 .. n) \ {i, i + 1}
        PROVE  \E j \in 1 .. n - 1 : pmmap_list'[j] = pmmap_list[k]
    <2>1. CASE k < i
      BY <1>1, <1>2, <2>1
    <2>2. CASE k > i + 1
      <3>1. k - 1 \in 1 .. n - 1 /\ pmmap_list'[k - 1] = pmmap_list[(k - 1) + 1]
        BY <1>1, <1>2, <2>2
      <3>2. (k - 1) + 1 = k
        BY <1>1
      <3> QED BY <3>1, <3>2
    <2> QED BY <1>1, <2>1, <2>2
  <1>10. pmmap_list'[i] = m
    BY <1>1, <1>2
  <1>11. ASSUME NEW j \in 1 .. n - 1
         PROVE  pmmap_list'[j] = m \/ \E k \in 1 .. n : pmmap_list'[j] = pmmap_list[k]
    BY <1>1, <1>2
  <1> QED BY Zenon, <1>1, <1>2, <1>3, <1>8, <1>9, <1>10, <1>11

-----------------------------------------------------------------------------
(* The steps.                                                              *)

\* The new range covers what its descriptor lists, and the others what they did.
LEMMA InsertStep ==
  ASSUME ListInv, NEW base \in Bases, NEW length \in Lengths, NEW type \in Types,
         pmmap_init(base, length, type)
  PROVE  ListInv'
  <1> DEFINE e == [base |-> base, length |-> length, type |-> type]
             r == [start |-> base, type |-> type,
                   end |-> IF base + length >= MAXADDR THEN MAXADDR ELSE base + length]
  <1>1. base \in Nat /\ length \in Nat /\ MAXADDR \in Nat
    BY MapAssumption
  <1>2. MapType /\ MapSorted /\ pc # "KERN_PANIC" /\ slot' = slot
    BY DEF ListInv, pmmap_init
  <1>3. CASE UNCHANGED <<pmmap_list, mmap>>
    BY <1>2, <1>3, ListFrame DEF MapType
  <1>4. CASE Len(pmmap_list) = SLOTS /\ base <= MAXADDR
    <2>1. pc' = "KERN_PANIC" /\ pmmap_list' = pmmap_list /\ mmap' = mmap \cup {e}
      BY <1>1, <1>4 DEF pmmap_init, pmmap_insert
    <2>2. MapType'
      BY <1>1, <1>2, <1>4, <2>1 DEF MapType
    <2>3. MapSorted'
      BY <1>2, <2>1 DEF MapSorted
    <2> QED BY <2>1, <2>2, <2>3 DEF ListInv, MapKeepsMemory, Contained
  <1>5. CASE Len(pmmap_list) # SLOTS /\ base <= MAXADDR
    <2>0. PICK place \in 0 .. Len(pmmap_list) :
            PlaceFor(r, place) /\ pmmap_list' = Splice(pmmap_list, place, r, place + 1)
      BY <1>1, <1>5 DEF pmmap_init, pmmap_insert
    <2>1. mmap' = mmap \cup {e} /\ pc' = pc
      BY <1>1, <1>5 DEF pmmap_init, pmmap_insert
    <2>2. r \in Range32
      BY <1>1, <1>5 DEF Range32
    <2>3. /\ r.start = base /\ r.type = type
          /\ r.end = IF base + length >= MAXADDR THEN MAXADDR ELSE base + length
          /\ e.base = base /\ e.length = length /\ e.type = type
      OBVIOUS
    <2>4. e \in [base : 0 .. MAXADDR, length : Nat, type : Types]
      BY <1>1, <1>5
    <2> HIDE DEF r, e
    <2>5. /\ MapSorted' /\ pmmap_list' \in Seq(Range32)
          /\ \A k \in DOMAIN pmmap_list :
               \E j \in DOMAIN pmmap_list' : pmmap_list'[j] = pmmap_list[k]
          /\ \E j \in DOMAIN pmmap_list' : pmmap_list'[j] = r
          /\ \A j \in DOMAIN pmmap_list' :
               pmmap_list'[j] = r \/ \E k \in DOMAIN pmmap_list : pmmap_list'[j] = pmmap_list[k]
      BY <1>2, <1>5, <2>0, <2>2, InsertList
    <2>6. MapType'
      BY <1>2, <2>1, <2>4, <2>5 DEF MapType
    <2>7. MapKeepsMemory'
      <3> SUFFICES ASSUME NEW t \in Types, NEW a \in 0 .. MAXADDR - 1
                   PROVE  Listed(a, t)' <=>
                            \E k \in DOMAIN pmmap_list' : /\ pmmap_list'[k].type = t
                                                          /\ pmmap_list'[k].start <= a
                                                          /\ a < pmmap_list'[k].end
        BY DEF MapKeepsMemory
      <3>1. Listed(a, t) <=>
              \E k \in DOMAIN pmmap_list : /\ pmmap_list[k].type = t
                                           /\ pmmap_list[k].start <= a
                                           /\ a < pmmap_list[k].end
        BY <1>2 DEF ListInv, MapKeepsMemory
      <3>2. Listed(a, t)' <=>
              Listed(a, t) \/ (type = t /\ base <= a /\ a < base + length)
        BY <2>1, <2>3 DEF Listed
      <3>3. (r.type = t /\ r.start <= a /\ a < r.end)
              <=> (type = t /\ base <= a /\ a < base + length)
        BY <1>1, <2>3
      <3> QED BY <2>5, <3>1, <3>2, <3>3
    <2>8. Contained'
      <3> SUFFICES ASSUME NEW f \in mmap'
                   PROVE  \E k \in DOMAIN pmmap_list' :
                            /\ pmmap_list'[k].type = f.type
                            /\ pmmap_list'[k].start <= f.base
                            /\ \/ f.base + f.length <= pmmap_list'[k].end
                               \/ pmmap_list'[k].end = MAXADDR
        BY DEF Contained
      <3>1. CASE f = e
        <4>1. /\ r.type = f.type /\ r.start <= f.base
              /\ f.base + f.length <= r.end \/ r.end = MAXADDR
          BY <1>1, <2>3, <3>1
        <4> QED BY <2>5, <4>1
      <3>2. CASE f \in mmap
        <4>1. PICK k \in DOMAIN pmmap_list :
                /\ pmmap_list[k].type = f.type
                /\ pmmap_list[k].start <= f.base
                /\ \/ f.base + f.length <= pmmap_list[k].end
                   \/ pmmap_list[k].end = MAXADDR
          BY <1>2, <3>2 DEF ListInv, Contained
        <4> QED BY <2>5, <4>1
      <3> QED BY <2>1, <3>1, <3>2
    <2> QED BY <2>5, <2>6, <2>7, <2>8 DEF ListInv
  <1>6. base > MAXADDR => UNCHANGED <<pmmap_list, mmap>>
    BY <1>1 DEF pmmap_init
  <1> QED BY <1>1, <1>3, <1>4, <1>5, <1>6

\* The merged range covers what the two covered, because they meet.
LEMMA MergeStep ==
  ASSUME ListInv, pmmap_merge
  PROVE  ListInv'
  <1>1. /\ MapType /\ MapSorted /\ pc # "KERN_PANIC" /\ pc' = pc /\ mmap' = mmap
        /\ slot' = slot + 1 /\ slot < Len(pmmap_list)
    BY DEF ListInv, pmmap_merge
  <1> DEFINE i == slot
             r == pmmap_list[i]
             s == pmmap_list[i + 1]
             m == Merged(r, s)
  <1>2. slot' \in Nat \ {0}
    BY <1>1 DEF MapType
  <1>3. CASE ~Mergeable(r, s)
    <2>1. pmmap_list' = pmmap_list
      BY <1>3 DEF pmmap_merge
    <2> QED BY <1>1, <1>2, <2>1, ListFrame
  <1>4. CASE Mergeable(r, s)
    <2>1. pmmap_list' = Splice(pmmap_list, i - 1, m, i + 2)
      BY <1>4 DEF pmmap_merge
    <2>2. /\ i \in 1 .. Len(pmmap_list) - 1
          /\ i \in DOMAIN pmmap_list /\ i + 1 \in DOMAIN pmmap_list
      BY <1>1, ListElements DEF MapType
    <2>3. /\ r \in Range32 /\ s \in Range32 /\ r.start \in Nat /\ r.end \in Nat
          /\ s.start \in Nat /\ s.end \in Nat
          /\ r.end <= MAXADDR /\ s.end <= MAXADDR
      BY <1>1, <2>2, ListElements
    <2>5. /\ m.type = r.type /\ m.type = s.type /\ m.start = r.start
          /\ m.end = IF r.end >= s.end THEN r.end ELSE s.end
          /\ m \in Range32 /\ r.start <= s.start /\ r.end >= s.start
      BY <1>4, <2>3 DEF Merged, Mergeable, Range32
    <2> HIDE DEF m
    <2>6. /\ MapSorted' /\ pmmap_list' \in Seq(Range32)
          /\ \A k \in DOMAIN pmmap_list \ {i, i + 1} :
               \E j \in DOMAIN pmmap_list' : pmmap_list'[j] = pmmap_list[k]
          /\ \E j \in DOMAIN pmmap_list' : pmmap_list'[j] = m
          /\ \A j \in DOMAIN pmmap_list' :
               pmmap_list'[j] = m \/ \E k \in DOMAIN pmmap_list : pmmap_list'[j] = pmmap_list[k]
      BY <1>1, <2>1, <2>2, <2>5, MergeList
    <2>7. MapType'
      BY <1>1, <1>2, <2>6 DEF MapType
    <2>8. MapKeepsMemory'
      <3> SUFFICES ASSUME NEW t \in Types, NEW a \in 0 .. MAXADDR - 1
                   PROVE  Listed(a, t)' <=>
                            \E k \in DOMAIN pmmap_list' : /\ pmmap_list'[k].type = t
                                                          /\ pmmap_list'[k].start <= a
                                                          /\ a < pmmap_list'[k].end
        BY DEF MapKeepsMemory
      <3> DEFINE C(x) == x.type = t /\ x.start <= a /\ a < x.end
      <3>1. Listed(a, t) <=> \E k \in DOMAIN pmmap_list : C(pmmap_list[k])
        BY <1>1 DEF ListInv, MapKeepsMemory
      <3>2. Listed(a, t)' <=> Listed(a, t)
        BY <1>1 DEF Listed
      <3>3. C(m) <=> C(r) \/ C(s)
        BY <2>3, <2>5, MapAssumption
      <3>4. (\E k \in DOMAIN pmmap_list : C(pmmap_list[k]))
              <=> \E j \in DOMAIN pmmap_list' : C(pmmap_list'[j])
        <4> HIDE DEF C
        <4> QED BY Zenon, <2>2, <2>6, <3>3
      <3> QED BY <3>1, <3>2, <3>4
    <2>9. Contained'
      <3> SUFFICES ASSUME NEW f \in mmap
                   PROVE  \E k \in DOMAIN pmmap_list' :
                            /\ pmmap_list'[k].type = f.type
                            /\ pmmap_list'[k].start <= f.base
                            /\ \/ f.base + f.length <= pmmap_list'[k].end
                               \/ pmmap_list'[k].end = MAXADDR
        BY <1>1 DEF Contained
      <3> DEFINE H(x) == /\ x.type = f.type
                         /\ x.start <= f.base
                         /\ f.base + f.length <= x.end \/ x.end = MAXADDR
      <3>1. PICK k \in DOMAIN pmmap_list : H(pmmap_list[k])
        BY <1>1 DEF ListInv, Contained
      <3>2. f.base \in Nat /\ f.length \in Nat
        BY <1>1, MapAssumption DEF MapType
      <3>3. H(r) \/ H(s) => H(m)
        BY <2>3, <2>5, <3>2, MapAssumption
      <3>4. \E j \in DOMAIN pmmap_list' : H(pmmap_list'[j])
        <4> HIDE DEF H
        <4> QED BY <2>6, <3>1, <3>3
      <3> QED BY <3>4
    <2> QED BY <2>6, <2>7, <2>8, <2>9 DEF ListInv
  <1> QED BY <1>3, <1>4

\* The start of a page of the user area, and the room for it below the last address.
LEMMA PageFits ==
  ASSUME NEW p \in VM_USERLO_PI .. VM_USERHI_PI - 1
  PROVE  /\ p \in Pages /\ p * PAGESIZE \in Nat
         /\ (p + 1) * PAGESIZE = p * PAGESIZE + PAGESIZE
         /\ (p + 1) * PAGESIZE <= MAXADDR
  <1>1. /\ p \in Nat /\ NPS \in Nat /\ p + 1 <= NPS
        /\ PAGESIZE \in Nat /\ PAGESIZE > 0 /\ MAXADDR \in Nat
    BY MapAssumption DEF NPS
  <1>2. NPS * PAGESIZE <= MAXADDR
    BY <1>1 DEF NPS
  <1> HIDE DEF NPS
  <1>3. p * PAGESIZE \in Nat /\ (p + 1) * PAGESIZE = p * PAGESIZE + PAGESIZE
    BY <1>1
  <1>4. (p + 1) * PAGESIZE <= NPS * PAGESIZE
    BY <1>1
  <1> QED BY <1>1, <1>2, <1>3, <1>4 DEF Pages

\* pmem_init hands out what lies inside one range of usable memory.
LEMMA PermStep ==
  ASSUME ListInv, pmem_init
  PROVE  NormalIsUsable' /\ UsableIsNormal'
  <1>1. /\ MapType /\ MapKeepsMemory /\ Contained /\ pc # "KERN_PANIC"
        /\ mmap' = mmap /\ pmmap_list' = pmmap_list
    BY DEF ListInv, pmem_init
  <1>2. \A p \in Pages : perm'[p] =
          IF p < VM_USERLO_PI \/ p >= VM_USERHI_PI THEN 1
          ELSE IF \E j \in DOMAIN pmmap_list : InRange(p, j) THEN 2 ELSE 0
    BY DEF pmem_init
  <1>3. PAGESIZE \in Nat /\ PAGESIZE > 0 /\ MAXADDR \in Nat
    BY MapAssumption
  <1>4. ASSUME NEW p \in Pages, perm'[p] = 2
        PROVE  /\ p \in VM_USERLO_PI .. VM_USERHI_PI - 1
               /\ \A a \in p * PAGESIZE .. p * PAGESIZE + PAGESIZE - 1 :
                    Listed(a, MEM_RAM)
    <2>1. p \in VM_USERLO_PI .. VM_USERHI_PI - 1
      <3>1. p \in Int /\ VM_USERLO_PI \in Int /\ VM_USERHI_PI \in Int
        BY MapAssumption DEF Pages
      <3> QED BY <1>2, <1>4, <3>1
    <2>2. PICK j \in DOMAIN pmmap_list : InRange(p, j)
      BY <1>2, <1>4
    <2> DEFINE r == pmmap_list[j]
               x == p * PAGESIZE
    <2>3. x \in Nat
      BY <2>1, PageFits
    <2>4. /\ r.start \in Nat /\ r.end \in Nat /\ r.end <= MAXADDR
          /\ r.type \in Types
      BY <1>1, ListElements
    <2>5. x > starts(j) /\ x + PAGESIZE - 1 < ends(j)
      BY <2>2 DEF InRange
    <2> HIDE DEF x
    <2>6. r.type = MEM_RAM
      BY <1>3, <2>3, <2>5 DEF starts, ends
    <2>7. x > r.start /\ x + PAGESIZE - 1 < r.end
      BY <2>5, <2>6 DEF starts, ends
    <2>8. ASSUME NEW a \in x .. x + PAGESIZE - 1
          PROVE  Listed(a, MEM_RAM)
      <3>1. a \in 0 .. MAXADDR - 1 /\ r.start <= a /\ a < r.end
        BY <1>3, <2>3, <2>4, <2>7
      <3> QED BY <1>1, <2>4, <2>6, <3>1 DEF MapKeepsMemory
    <2> QED BY <2>1, <2>8 DEF x
  <1>5. ASSUME NEW p \in VM_USERLO_PI .. VM_USERHI_PI - 1, NEW e \in mmap,
               e.type = MEM_RAM, e.base < p * PAGESIZE,
               (p + 1) * PAGESIZE <= e.base + e.length
        PROVE  perm'[p] = 2
    <2> DEFINE x == p * PAGESIZE
    <2>1. p \in Pages /\ x \in Nat /\ (p + 1) * PAGESIZE = x + PAGESIZE
          /\ x + PAGESIZE <= MAXADDR
      BY PageFits
    <2>2. e.base \in Nat /\ e.length \in Nat
      BY <1>1, <1>3 DEF MapType
    <2>3. e.base < x /\ x + PAGESIZE <= e.base + e.length
      BY <1>5, <2>1
    <2> HIDE DEF x
    <2>4. PICK k \in DOMAIN pmmap_list :
            /\ pmmap_list[k].type = e.type
            /\ pmmap_list[k].start <= e.base
            /\ e.base + e.length <= pmmap_list[k].end \/ pmmap_list[k].end = MAXADDR
      BY <1>1 DEF Contained
    <2>5. pmmap_list[k].start \in Nat /\ pmmap_list[k].end \in Nat
      BY <1>1, ListElements
    <2>6. x > starts(k) /\ x + PAGESIZE - 1 < ends(k)
      BY <1>3, <1>5, <2>1, <2>2, <2>3, <2>4, <2>5 DEF starts, ends
    <2>7. InRange(p, k)
      BY <2>6 DEF InRange, x
    <2>8. ~(p < VM_USERLO_PI \/ p >= VM_USERHI_PI)
      BY MapAssumption
    <2> QED BY <1>2, <2>1, <2>7, <2>8
  <1>6. NormalIsUsable'
    BY <1>1, <1>4 DEF NormalIsUsable, Listed
  <1>7. UsableIsNormal'
    BY <1>1, <1>5 DEF UsableIsNormal
  <1> QED BY <1>6, <1>7

\* The boot loader is at work neither after a panic nor after start-up.
LEMMA BootPc ==
  ASSUME BootNext
  PROVE  pc # "KERN_PANIC" /\ pc' # "done"
  BY Zenon DEF BootNext, load_boot1, e820, e820_fails, e820_ends, boot1main, parse_e820,
         load_kernel, load_segment, exec_kernel, seg_init, devinit

LEMMA MapInit == Init => MapInv
  <1> SUFFICES ASSUME Init PROVE MapInv
    OBVIOUS
  <1>1. /\ pc = "boot0" /\ mmap = {} /\ pmmap_list = <<>> /\ slot = 1
    BY DEF Init, BootInit
  <1>2. pmmap_list \in Seq(Range32) /\ Len(pmmap_list) = 0 /\ DOMAIN pmmap_list = {}
    BY <1>1
  <1>3. MapType /\ MapSorted
    BY <1>1, <1>2, MapAssumption DEF MapType, MapSorted
  <1>4. MapKeepsMemory /\ Contained
    BY <1>1, <1>2 DEF MapKeepsMemory, Contained, Listed
  <1> QED BY <1>1, <1>3, <1>4 DEF MapInv, ListInv, NormalIsUsable, UsableIsNormal

LEMMA MapNext ==
  ASSUME MapInv, [Next]_vars
  PROVE  MapInv'
  <1>1. ListInv /\ slot \in Nat \ {0}
    BY DEF MapInv, ListInv, MapType
  <1>2. CASE BootNext /\ UNCHANGED mapVars
    <2>1. ListInv'
      BY <1>1, <1>2, BootPc, ListFrame DEF mapVars
    <2> QED BY <1>2, <2>1, BootPc DEF MapInv, NormalIsUsable, UsableIsNormal
  <1>3. CASE \E base \in Bases, length \in Lengths, type \in Types :
               pmmap_init(base, length, type)
    <2>1. ListInv'
      BY <1>1, <1>3, InsertStep
    <2>2. pc' # "done"
      BY <1>3 DEF pmmap_init, pmmap_insert
    <2> QED BY <2>1, <2>2 DEF MapInv, NormalIsUsable, UsableIsNormal
  <1>4. CASE pmmap_init_ends \/ pmmap_merge_ends
    <2>1. pc # "KERN_PANIC" /\ pc' # "done" /\ UNCHANGED <<pmmap_list, mmap, slot>>
      BY Zenon, <1>4 DEF pmmap_init_ends, pmmap_merge_ends, mapVars
    <2>2. ListInv'
      BY <1>1, <2>1, ListFrame
    <2> QED BY <2>1, <2>2 DEF MapInv, NormalIsUsable, UsableIsNormal
  <1>5. CASE pmmap_merge
    <2>1. ListInv'
      BY <1>1, <1>5, MergeStep
    <2> QED BY <1>5, <2>1 DEF MapInv, NormalIsUsable, UsableIsNormal, pmmap_merge
  <1>6. CASE pmem_init
    <2>1. ListInv'
      BY <1>1, <1>6, ListFrame DEF pmem_init
    <2> QED BY <1>1, <1>6, <2>1, PermStep DEF MapInv
  <1>7. CASE UNCHANGED vars
    <2>1. UNCHANGED <<pc, mmap, pmmap_list, slot, perm>>
      BY <1>7 DEF vars, bootVars, mapVars
    <2>2. ListInv'
      BY <1>1, <2>1, ListFrame
    <2> QED BY <2>1, <2>2 DEF MapInv, NormalIsUsable, UsableIsNormal, Listed
  <1> QED BY <1>2, <1>3, <1>4, <1>5, <1>6, <1>7 DEF Next

\* The list of the memory map is sorted by start and within its slots at every
\* moment (pmmap_insert, pmmap_merge).
THEOREM MapStaysSorted == Spec => []MapSorted
  <1>1. MapInv => MapSorted
    BY DEF MapInv, ListInv
  <1> QED BY <1>1, MapInit, MapNext, PTL DEF Spec

\* The list covers, type by type, exactly what the boot loader has listed so
\* far, however ranges overlap (pmmap_init, pmmap_merge).
THEOREM MapIsComplete == Spec => []MapKeepsMemory
  <1>1. MapInv => MapKeepsMemory
    BY DEF MapInv, ListInv
  <1> QED BY <1>1, MapInit, MapNext, PTL DEF Spec

\* The pages that palloc may hand out are usable memory of the user area
\* (pmem_init).
THEOREM OnlyUsableIsNormal == Spec => []NormalIsUsable
  <1>1. MapInv => NormalIsUsable
    BY DEF MapInv
  <1> QED BY <1>1, MapInit, MapNext, PTL DEF Spec

\* No page inside a usable range is lost, whatever the ranges of the boot loader
\* (pmmap_merge, pmem_init).
THEOREM AllUsableIsNormal == Spec => []UsableIsNormal
  <1>1. MapInv => UsableIsNormal
    BY DEF MapInv
  <1> QED BY <1>1, MapInit, MapNext, PTL DEF Spec

-----------------------------------------------------------------------------
(* The descriptors that are handed over.                                   *)

Reading == {"pmmap_init", "pmmap_merge"}

\* Before the BIOS is done the buffer holds descriptors only, then one of zeros
\* behind them; mmap_length counts those in front of it, and pmmap_init reads
\* no more.
HandInv ==
  /\ smap \in Seq({"range", "zero"})
  /\ next \in Nat
  /\ pc \in {"boot0", "e820", "e820.4"} => \A k \in DOMAIN smap : smap[k] = "range"
  /\ pc \in {"boot1main", "parse_e820"} \cup Loading \cup Reading =>
       /\ Len(smap) > 0
       /\ \A k \in DOMAIN smap : smap[k] = "zero" <=> k = Len(smap)
  /\ pc \notin Reading \cup {"KERN_PANIC", "pmem_init", "done"} => next = 0
  /\ pc \in Loading \cup Reading => mmap_length = DescriptorSize * (Len(smap) - 1)
  /\ pc \in Reading => next <= Len(smap) - 1
  /\ pc = "pmmap_merge" => next = Len(smap) - 1

LEMMA HandInit == Init => HandInv
  BY DEF Init, BootInit, HandInv, Loading, Reading

LEMMA HandNext ==
  ASSUME HandInv, [Next]_vars
  PROVE  HandInv'
  <1> USE DEF Loading, Reading
  <1>1. CASE BootNext /\ UNCHANGED mapVars
    <2>0. next' = next
      BY <1>1 DEF mapVars
    <2>1. CASE load_boot1 \/ e820_fails \/ boot1main
      BY <2>0, <2>1 DEF HandInv, load_boot1, e820_fails, boot1main
    <2>2. CASE e820
      BY <2>0, <2>2 DEF HandInv, e820
    <2>3. CASE e820_ends
      BY <2>0, <2>3 DEF HandInv, e820_ends
    <2>4. CASE parse_e820
      <3>1. PICK k \in DOMAIN smap :
              EndOfMap(k) /\ mmap_length' = DescriptorSize * (k - 1)
        BY <2>4 DEF parse_e820
      <3>2. k = Len(smap)
        BY <2>4, <3>1 DEF HandInv, parse_e820, EndOfMap
      <3>3. mmap_length' = DescriptorSize * (Len(smap) - 1)
        BY <3>1, <3>2
      <3> QED BY <2>0, <2>4, <3>3 DEF HandInv, parse_e820
    <2>5. CASE load_kernel \/ load_segment \/ exec_kernel \/ seg_init \/ devinit
      <3>1. /\ pc \in Loading /\ UNCHANGED <<smap, mmap_length>>
            /\ pc' \in Loading \cup {"pmmap_init", "panic"}
        BY Zenon, <2>5 DEF load_kernel, load_segment, exec_kernel, seg_init, devinit
      <3> QED BY <2>0, <3>1 DEF HandInv
    <2> QED BY <1>1, <2>1, <2>2, <2>3, <2>4, <2>5 DEF BootNext
  <1>2. CASE \E base \in Bases, length \in Lengths, type \in Types :
               pmmap_init(base, length, type)
    <2>1. /\ pc = "pmmap_init" /\ pc' \in {"pmmap_init", "KERN_PANIC"}
          /\ next * DescriptorSize < mmap_length /\ next' = next + 1
          /\ UNCHANGED <<smap, mmap_length>>
      BY <1>2 DEF pmmap_init, pmmap_insert, handedOver
    <2>2. next' <= Len(smap) - 1
      BY <2>1 DEF HandInv, DescriptorSize
    <2> QED BY <2>1, <2>2 DEF HandInv
  <1>3. CASE pmmap_init_ends
    <2>1. /\ pc = "pmmap_init" /\ pc' = "pmmap_merge"
          /\ next * DescriptorSize >= mmap_length
          /\ UNCHANGED <<smap, mmap_length, next>>
      BY <1>3 DEF pmmap_init_ends, handedOver, mapVars
    <2>2. next = Len(smap) - 1
      BY <2>1 DEF HandInv, DescriptorSize
    <2> QED BY <2>1, <2>2 DEF HandInv
  <1>4. CASE pmmap_merge \/ pmmap_merge_ends \/ pmem_init
    <2>1. /\ \/ pc' = pc /\ pc = "pmmap_merge"
             \/ pc' \in {"KERN_PANIC", "pmem_init", "done"}
          /\ UNCHANGED <<smap, mmap_length, next>>
      BY Zenon, <1>4 DEF pmmap_merge, pmmap_merge_ends, pmem_init, handedOver
    <2> QED BY <2>1 DEF HandInv
  <1>5. CASE UNCHANGED vars
    BY <1>5 DEF HandInv, vars, bootVars, mapVars
  <1> QED BY <1>1, <1>2, <1>3, <1>4, <1>5 DEF Next

\* pmmap_init reads all descriptors that the BIOS has given and no other
\* (e820, parse_e820, pmmap_init).
THEOREM AllIsHandedOver == Spec => []MapHandedOver
  <1>1. HandInv => MapHandedOver
    <2> SUFFICES ASSUME HandInv, pc = "pmmap_merge"
                 PROVE  MapHandedOver
      BY DEF MapHandedOver
    <2>1. Len(smap) \in Nat /\ next = Len(smap) - 1 /\ DOMAIN smap = 1 .. Len(smap)
      BY DEF HandInv
    <2>2. \A k \in DOMAIN smap : smap[k] = "range" <=> k # Len(smap)
      BY DEF HandInv, Reading
    <2> QED BY <2>1, <2>2 DEF MapHandedOver
  <1> QED BY <1>1, HandInit, HandNext, PTL DEF Spec
=============================================================================
