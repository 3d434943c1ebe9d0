-------------------------------- MODULE MC_Vga -------------------------------
EXTENDS Vga

=============================================================================
