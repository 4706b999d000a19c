--------------------------- MODULE MCFatCalendar ---------------------------
(***************************************************************************)
(* Every day of the years around and within FAT's range, at both ends of   *)
(* the day and at a time with three different fields.                      *)
(***************************************************************************)
EXTENDS FatCalendar

MCSeconds == {0, 45297, 86399}
=============================================================================
