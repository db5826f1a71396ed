---------------------------- MODULE DoubleBuffer ----------------------------
(***************************************************************************)
(* The double buffer of an SRAM region (memory/double_buffer.c) as a value *)
(* and the operations on it.  A buffer's content is one value: of a byte,  *)
(* or of whatever the module that uses it follows.  Byte and cycle totals  *)
(* of the statistics are left out.                                         *)
(***************************************************************************)
EXTENDS Naturals

CONSTANT Zero   \* the content calloc gives a buffer

\* A region: without double buffering its shadow does not exist, and stands
\* here for the cleared buffer that enabling would allocate.
Region(Data) == [enabled : BOOLEAN, active : {0, 1}, dirty : BOOLEAN,
                 primary : Data, shadow : Data]

Unswapped(enabled, data) ==
    [enabled |-> enabled, active |-> 0, dirty |-> FALSE, primary |-> data, shadow |-> Zero]

SingleBuffered(data) == Unswapped(FALSE, data)

\* tu_sram_get_active_ptr, tu_sram_raw_ptr and every access by address.
ActiveData(r) == IF r.enabled /\ r.active = 1 THEN r.shadow ELSE r.primary

\* tu_sram_get_shadow_ptr: the opposite one.
ShadowData(r) == IF r.active = 0 THEN r.shadow ELSE r.primary

WriteActive(r, data) ==
    IF r.enabled /\ r.active = 1 THEN [r EXCEPT !.shadow = data]
    ELSE [r EXCEPT !.primary = data]

WriteShadow(r, data) ==
    IF r.active = 0 THEN [r EXCEPT !.shadow = data] ELSE [r EXCEPT !.primary = data]

Enable(r) == IF r.enabled THEN r ELSE Unswapped(TRUE, r.primary)

\* Variant: disabling keeps the primary as it is.
DisableForgets(r) == SingleBuffered(r.primary)

\* What the reader saw stays: an active shadow is copied back first.
Disable(r) == SingleBuffered(ActiveData(r))

Swap(r) ==
    IF r.enabled THEN [r EXCEPT !.active = 1 - @, !.dirty = FALSE] ELSE r

NotifyShadowWrite(r) == IF r.enabled THEN [r EXCEPT !.dirty = TRUE] ELSE r

=============================================================================
