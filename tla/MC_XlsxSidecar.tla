--------------------------- MODULE MC_XlsxSidecar ---------------------------
(* XlsxSidecar for TLC. *)
EXTENDS XlsxSidecar

=============================================================================
