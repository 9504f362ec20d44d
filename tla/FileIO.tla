------------------------------- MODULE FileIO -------------------------------
(***************************************************************************)
(* The page file of file_io.c.  A file is opened as a FileInfo: the length *)
(* its users believe in, and the bytes on disk behind it.  Addresses are   *)
(* counted in pages, so the only address that is not a multiple of         *)
(* PAGE_SIZE is NoAddr, the -1 that the pool stores in an unused frame.    *)
(*                                                                         *)
(*   length   FileInfo.length, in pages                                    *)
(*   size     what ftell reports at the end of the file, in pages          *)
(*   disk     the pages on disk; those from size on do not exist           *)
(*                                                                         *)
(* length and size are not the same thing: hash_map.c and b_tree.c shrink  *)
(* a file by decrementing length only, and size never decreases.           *)
(***************************************************************************)
EXTENDS Integers

NoAddr == -1

\* open_file on a file already on disk: length is where SEEK_END lands.
OpenFile(file) == [file EXCEPT !.length = file.size]

\* close_file forgets the length.
CloseFile(file) == [file EXCEPT !.length = 0]

\* write_page: overwrite below length, append at length, refuse the rest
\* (INVALID_ADDR, ADDR_OUT_OF_RANGE) and leave the file alone.
WritePage(file, addr, page) ==
  IF addr \in 0 .. file.length
    THEN [length |-> IF addr = file.length THEN addr + 1 ELSE file.length,
          size   |-> IF addr >= file.size THEN addr + 1 ELSE file.size,
          disk   |-> [file.disk EXCEPT ![addr] = page]]
    ELSE file

\* read_page into a buffer that holds old: a refused read leaves the buffer.
ReadPage(file, addr, old) ==
  IF addr \in 0 .. file.length - 1 THEN file.disk[addr] ELSE old
=============================================================================
