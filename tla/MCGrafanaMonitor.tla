-------------------------- MODULE MCGrafanaMonitor --------------------------
(* GrafanaMonitor for TLC: intervals in seconds, as NewGrafanaMonitor sets them. *)
EXTENDS GrafanaMonitor

=============================================================================
