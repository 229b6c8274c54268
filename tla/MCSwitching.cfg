SPECIFICATION Spec
INVARIANTS TypeOK SwitchAgrees SmokeRestores WireguardIsGone
