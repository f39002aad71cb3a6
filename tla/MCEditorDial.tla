----------------------------- MODULE MCEditorDial -----------------------------
\* EditorDial for TLC: an opening that is a held session or a one-shot run, whichever it turns out to be.
EXTENDS EditorDial

CONSTANT s1

Openings1 == {s1}
===============================================================================
