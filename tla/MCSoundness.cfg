CONSTANTS
    P = 5
    ConstVals = {0, 1, 3}
    SoundGadgets <- MCSoundGadgets
SPECIFICATION Spec
INVARIANT GadgetsSound
