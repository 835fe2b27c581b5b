--------------------------- MODULE MCBufferReports ---------------------------
(***************************************************************************)
(* BufferReports for TLC: every layout case at sizes around the            *)
(* alignments of 16, 32 and 64.                                            *)
(***************************************************************************)
EXTENDS BufferReports

MCDescriptors ==
  [format : {"RGBA_8888", "BGRA_8888", "YV12", "YCRCB_420_SP", "BLOB", "RAW10"},
   width : {1, 33, 64}, height : {2, 5}, usage : {{"SW_READ_OFTEN"}, {"CURSOR", "PROTECTED"}}]

MCHdrValues == {<<1000, 140>>, <<400, 50>>}

=============================================================================
