------------------------------ MODULE PluginMC ------------------------------
(* Constants for the runs of Plugin.                                        *)
EXTENDS Plugin

MCFanCounts == {3, 4}
MCValues == {30, 120}
=============================================================================
