CONSTANTS
    colors_n = 8
    Steps = 4
    Gradients <- MCGradients
    MaxPosition = 84
SPECIFICATION Spec
INVARIANT
    ColorIsNearTheCurve
PROPERTY
    PictureHasNoEdges
